---- MODULE Spec2Model ----
(***************************************************************************)
(* Model of the subscriber directory (nibble trie) and the address codec   *)
(* of overlay_address.c.                                                   *)
(*                                                                         *)
(* Pointers are indices: a struct tree_node * is an index into `nodes`     *)
(* (the root is nodes[1]), a struct subscriber * is an index into `subs`;  *)
(* NULL is 0.  malloc returns the next unused index and nothing is freed.  *)
(***************************************************************************)
EXTENDS Integers, Sequences, FiniteSets, TLC

VARIABLES
  nodes,          \* the tree_node arena; nodes[ROOT] is the static root
  subs,           \* the struct subscriber arena, in allocation order
  my_subscriber,  \* struct subscriber *my_subscriber
  context,        \* the struct decode_context of the frame in hand
  frame_dir,      \* "none", "in" (a frame being decoded) or "out" (being encoded)
  ndecoded,       \* addresses parsed from the frame being decoded
  out_limit,      \* the size limit of the buffer of the frame being built
  encoded,        \* the outbound buffer: one entry per overlay_address_append call
  queue,          \* frames handed to overlay_payload_enqueue and not yet sent
  bpilist,        \* static struct broadcast bpilist[MAX_BPIS]: the slots written so far
  checked,        \* the calls of overlay_broadcast_drop_check so far, with their results
  interfaces,     \* the state of each overlay_interface
  directory_service,  \* struct subscriber *directory_service
  calls,          \* what the last reachability call asked of the keyring and the directory
  enumerated,     \* the subscribers the last enum_subscribers handed to its callback
  abbrs,          \* overlay_address_table *abbrs of the index-table encoder, and its cache
  abbr_call       \* the last call of overlay_abbreviate_address: its address and output

dirVars   == <<nodes, subs, my_subscriber>>
codecVars == <<context, frame_dir, ndecoded, out_limit, encoded, queue>>
cacheVars == <<bpilist, checked>>
routeVars == <<directory_service, calls>>
abbrVars  == <<abbrs, abbr_call>>
vars      == <<nodes, subs, my_subscriber, context, frame_dir, ndecoded, out_limit,
               encoded, queue, bpilist, checked, interfaces, directory_service, calls,
               enumerated, abbrs, abbr_call>>

----------------------------------------------------------------------------
(* Program constants *)

NULL == 0
ROOT == 1
SID_SIZE == 32
OA_CODE_SELF == 255
OA_CODE_PREVIOUS == 254
REACHABLE_NONE == 0
REACHABLE_SELF == 1
REACHABLE_BROADCAST == 2
REACHABLE_UNICAST == 4
REACHABLE_INDIRECT == 8
REACHABLE_ASSUMED == 16
INTERFACE_STATE_DOWN == 0
INTERFACE_STATE_UP == 1
AF_INET == 2
MAX_BPIS == 1024
BPI_MASK == 1023
BROADCAST_LEN == 8

(* Bounds of the model *)

MaxSubs == 3      \* subscribers the directory may hold
MaxEnc == 3       \* addresses appended to one outbound frame
MaxDec == 2       \* addresses parsed from one inbound frame
MaxChecks == 5    \* calls of overlay_broadcast_drop_check
NumInterfaces == 1  \* network interfaces of the node
MaxLongDec == 40  \* addresses parsed from one long inbound frame

----------------------------------------------------------------------------
(* Node IDs of the model: 32-byte strings chosen so that pairs share      *)
(* 0, 3 and 63 leading nibbles.                                            *)

Zeros(n) == [i \in 1..n |-> 0]
MkSid(head, tail) == head \o Zeros(SID_SIZE - Len(head) - Len(tail)) \o tail

SidA == MkSid(<<16, 0>>, <<>>)
SidB == MkSid(<<16, 1>>, <<>>)
SidD == MkSid(<<32>>, <<>>)
SidE == MkSid(<<16>>, <<1>>)

Sids == {SidA, SidB, SidD, SidE}

Take(s, n) == SubSeq(s, 1, n)

----------------------------------------------------------------------------
(* The nibble trie *)

Pow2(n) == 2 ^ n
BitSet(word, bit) == (word \div Pow2(bit)) % 2 = 1
BitOr(word, bit) == IF BitSet(word, bit) THEN word ELSE word + Pow2(bit)

get_nibble(sid, pos) ==
  LET byte == sid[(pos \div 2) + 1]
  IN  IF pos % 2 = 0 THEN (byte \div 16) % 16 ELSE byte % 16

\* a comparison that looks at the first byte only
MemcmpFirstByte(a, b, len) == a[1] = b[1]

\* memcmp(a, b, len) == 0
memcmp_eq(a, b, len) == Take(a, len) = Take(b, len)

\* the struct sockaddr_in of a calloc'ed subscriber
NoAddress == [sin_family |-> 0, sin_addr |-> 0, sin_port |-> 0]

EmptyNode == [is_tree |-> 0, ptr |-> [i \in 0..15 |-> NULL]]

NewSubscriber(sid, pos) ==
  [sid |-> sid, abbreviate_len |-> pos, reachable |-> REACHABLE_NONE, send_full |-> FALSE,
   next_hop |-> NULL, interface |-> NULL, sas_valid |-> FALSE, address |-> NoAddress]

\* a new subscriber that no slot of the trie is made to hold
InsertLeafUnlinked(N, S, ptr, nibble, sid, pos) ==
  [nodes |-> N, subs |-> Append(S, NewSubscriber(sid, pos)), ret |-> Len(S) + 1]

\* lines 83-87: a new leaf in the empty slot `nibble` of node ptr
InsertLeaf(N, S, ptr, nibble, sid, pos) ==
  [nodes |-> [N EXCEPT ![ptr].ptr[nibble] = Len(S) + 1],
   subs  |-> Append(S, NewSubscriber(sid, pos)),
   ret   |-> Len(S) + 1]

\* a split that leaves the moved leaf's depth as it was at the slot split
SplitDepthStale(pos) == pos

\* line 111: the depth recorded for a leaf moved one level down
SplitDepth(pos) == pos + 1

\* a split that forgets to hang the old subscriber in the new node
SplitSlotDropsLeaf(N, S, ptr, nibble, ret, pos) ==
  [nodes |-> Append([N EXCEPT ![ptr].ptr[nibble] = Len(N) + 1,
                              ![ptr].is_tree = BitOr(@, nibble)],
                    EmptyNode),
   subs  |-> [S EXCEPT ![ret].abbreviate_len = SplitDepth(pos)],
   new   |-> Len(N) + 1]

\* a split that hangs the old subscriber in the slot of the nibble just read
SplitSlotMisplaces(N, S, ptr, nibble, ret, pos) ==
  [nodes |-> Append([N EXCEPT ![ptr].ptr[nibble] = Len(N) + 1,
                              ![ptr].is_tree = BitOr(@, nibble)],
                    [EmptyNode EXCEPT !.ptr[nibble] = ret]),
   subs  |-> [S EXCEPT ![ret].abbreviate_len = SplitDepth(pos)],
   new   |-> Len(N) + 1]

\* lines 103-111: the slot `nibble` of node ptr becomes a new tree node that
\* holds the subscriber ret which lived in the slot
SplitSlot(N, S, ptr, nibble, ret, pos) ==
  LET new == Len(N) + 1
      moved == get_nibble(S[ret].sid, pos)
  IN  [nodes |-> Append([N EXCEPT ![ptr].ptr[nibble] = new,
                                  ![ptr].is_tree = BitOr(@, nibble)],
                        [EmptyNode EXCEPT !.ptr[moved] = ret]),
       subs  |-> [S EXCEPT ![ret].abbreviate_len = SplitDepth(pos)],
       new   |-> new]

\* Bind(v, F) is F(v) with v worked out once
Bind(v, F(_)) == F(v)

Returned(N, S, ret) ==
  [nodes |-> N, subs |-> S, ptr |-> NULL, pos |-> 0, ret |-> ret, done |-> TRUE]

\* a loop test that forgets the length of the abbreviation
LoopTestIgnoresLen(N, S, ptr, pos, len) ==
  IF pos < SID_SIZE * 2
  THEN [nodes |-> N, subs |-> S, ptr |-> ptr, pos |-> pos, ret |-> NULL, done |-> FALSE]
  ELSE [nodes |-> N, subs |-> S, ptr |-> NULL, pos |-> 0, ret |-> NULL, done |-> TRUE]

\* the test of the do-while loop, line 114: go round again at ptr while
\* pos < len*2, else fall out to "return NULL" (line 117)
LoopTest(N, S, ptr, pos, len) ==
  IF pos < len * 2
  THEN [nodes |-> N, subs |-> S, ptr |-> ptr, pos |-> pos, ret |-> NULL, done |-> FALSE]
  ELSE Returned(N, S, NULL)

\* one turn of the do-while loop of lines 73-114; st.pos is pos on entry
FindStep(st, sid, len, create) ==
  LET N == st.nodes
      S == st.subs
      ptr == st.ptr
      nibble == get_nibble(sid, st.pos)
      pos == st.pos + 1
      slot == N[ptr].ptr[nibble]
  IN  IF BitSet(N[ptr].is_tree, nibble)
      THEN LoopTest(N, S, slot, pos, len)
      ELSE IF slot = NULL
      THEN IF create
           THEN Bind(InsertLeaf(N, S, ptr, nibble, sid, pos),
                     LAMBDA r : Returned(r.nodes, r.subs, r.ret))
           ELSE Returned(N, S, NULL)
      ELSE IF memcmp_eq(S[slot].sid, sid, len)
      THEN Returned(N, S, slot)
      ELSE IF ~create
      THEN Returned(N, S, NULL)
      ELSE Bind(SplitSlot(N, S, ptr, nibble, slot, pos),
                LAMBDA sp : LoopTest(sp.nodes, sp.subs, sp.new, pos, len))

RECURSIVE FindLoop(_, _, _, _)
FindLoop(st, sid, len, create) ==
  IF st.done THEN st ELSE FindLoop(FindStep(st, sid, len, create), sid, len, create)

\* struct subscriber *find_subscriber(sid, len, create) on the directory (N, S)
find_subscriber(N, S, sid, len, create) ==
  FindLoop([nodes |-> N, subs |-> S, ptr |-> ROOT, pos |-> 0, ret |-> NULL, done |-> FALSE],
           sid, len, IF len # SID_SIZE THEN FALSE ELSE create)

----------------------------------------------------------------------------
(* walk_tree *)

RECURSIVE Flatten(_)
Flatten(ss) == IF ss = <<>> THEN <<>> ELSE Head(ss) \o Flatten(Tail(ss))

\* lines 129-137: the first slot and one past the last slot looked at in a
\* node at depth pos; start and end are a byte string or NoBytes (NULL)
NoBytes == <<>>
\* a walk that starts at the first slot of every node
WalkFirstZero(pos, start) == 0

WalkFirst(pos, start) ==
  IF start # NoBytes /\ pos < Len(start) * 2 THEN get_nibble(start, pos) ELSE 0
WalkEnd(pos, end) ==
  IF end # NoBytes /\ pos < Len(end) * 2 THEN get_nibble(end, pos) + 1 ELSE 16

\* What the walk has in hand for one slot: a subscriber to hand to the
\* callback, or a tree node still to be walked (with the value of start
\* that the recursive call of line 141 is given)
LeafItem(s) == [leaf |-> TRUE, ptr |-> s, start |-> NoBytes]
NodeItem(n, start) == [leaf |-> FALSE, ptr |-> n, start |-> start]

\* the for loop of lines 139-149 in the node of item it at depth pos: the
\* slots i..e-1 in order, the empty ones left out; only the first slot
\* looked at is given start (line 148)
WalkNode(N, it, pos, end) ==
  LET i0 == WalkFirst(pos, it.start)
      e == WalkEnd(pos, end)
      node == N[it.ptr]
      SlotItem(i) == IF BitSet(node.is_tree, i)
                     THEN NodeItem(node.ptr[i], IF i = i0 THEN it.start ELSE NoBytes)
                     ELSE LeafItem(node.ptr[i])
  IN  Bind(SelectSeq([k \in 1..(IF e > i0 THEN e - i0 ELSE 0) |-> i0 + k - 1],
                     LAMBDA i : node.ptr[i] # NULL),
           LAMBDA used : [k \in 1..Len(used) |-> SlotItem(used[k])])

IsLeafItem(x) == x.leaf

RECURSIVE WalkLevels(_, _, _, _)
\* The recursion of walk_tree unfolded one level of the trie at a time:
\* items holds, in walk order, the subscribers found above depth pos and
\* the tree nodes at depth pos, each of which is replaced by its slots.
WalkLevels(N, items, pos, end) ==
  IF SelectSeq(items, IsLeafItem) = items THEN items
  ELSE WalkLevels(N,
                  Flatten([k \in 1..Len(items) |->
                             IF items[k].leaf THEN <<items[k]>>
                             ELSE WalkNode(N, items[k], pos, end)]),
                  pos + 1, end)

\* The subscribers walk_tree(&root, 0, start, start_len, end, end_len, ...)
\* hands to its callback, in calling order, when no callback stops the walk.
\* The walk reads the trie only, so the order does not depend on what the
\* callbacks do.
WalkOrder(N, start, end) ==
  Bind(WalkLevels(N, <<NodeItem(ROOT, start)>>, 0, end),
       LAMBDA items : [k \in 1..Len(items) |-> items[k].ptr])

RECURSIVE EnumCalls(_, _, _)
\* the calls of a walk whose callback returns non-zero at its stopAt-th call
\* (never, if stopAt is 0): made holds the subscribers handed to it so far
EnumCalls(order, stopAt, made) ==
  IF order = <<>> THEN made
  ELSE IF Len(made) + 1 = stopAt THEN Append(made, Head(order))
  ELSE EnumCalls(Tail(order), stopAt, Append(made, Head(order)))

\* enum_subscribers(start, callback, context): the subscribers handed to the
\* callback, in calling order
enum_subscribers(N, S, start, stopAt) ==
  EnumCalls(WalkOrder(N, S[start].sid, NoBytes), stopAt, <<>>)

----------------------------------------------------------------------------
(* overlay_buffer, as far as this file uses it: a byte string with a size   *)
(* limit; an append that does not fit fails and writes nothing.             *)

MDP_MTU == 2000
EXPLAIN_LIMIT == 1024

ob_new(limit) == [bytes |-> <<>>, sizeLimit |-> limit]
ob_fits(b, n) == Len(b.bytes) + n <= b.sizeLimit
ob_append_bytes(b, bs) == IF ob_fits(b, Len(bs)) THEN [b EXCEPT !.bytes = @ \o bs] ELSE b

\* the frame calloc'ed at lines 358-360 and 402-404
NewExplainFrame(limit) == [allocated |-> TRUE, payload |-> ob_new(limit)]
\* context->please_explain == NULL
NoFrame == [allocated |-> FALSE, payload |-> ob_new(0)]

----------------------------------------------------------------------------
(* The address codec *)

\* a struct decode_context after bzero
NullContext ==
  [sender |-> NULL, previous |-> NULL, invalid_addresses |-> FALSE,
   please_explain |-> NoFrame, interface |-> NULL]

\* a length that covers abbreviate_len - 1 nibbles at most
AbbrevBytesShort(abbreviate_len) == abbreviate_len \div 2

\* line 339: len=(subscriber->abbreviate_len+2)/2, an integer division
AbbrevBytes(abbreviate_len) == (abbreviate_len + 2) \div 2

\* a length that leaves out the extra byte for the local identity
LiteralLenNoSelf(s) ==
  IF AbbrevBytes(s.abbreviate_len) > SID_SIZE THEN SID_SIZE
  ELSE AbbrevBytes(s.abbreviate_len)

\* lines 339-343: the length of the literal form of a subscriber whose
\* send_full is clear
LiteralLen(s) ==
  LET len0 == AbbrevBytes(s.abbreviate_len)
      len1 == IF s.reachable = REACHABLE_SELF THEN len0 + 1 ELSE len0
  IN  IF len1 > SID_SIZE THEN SID_SIZE ELSE len1

\* a branch order that tests context->previous before context->sender
AppendFormPreviousFirst(ctx, hasCtx, subscriber) ==
  IF hasCtx /\ subscriber = ctx.previous THEN "previous"
  ELSE IF hasCtx /\ subscriber = ctx.sender THEN "self"
  ELSE "literal"

\* lines 326, 330: which form overlay_address_append takes
AppendForm(ctx, hasCtx, subscriber) ==
  IF hasCtx /\ subscriber = ctx.sender THEN "self"
  ELSE IF hasCtx /\ subscriber = ctx.previous THEN "previous"
  ELSE "literal"

\* an emission that leaves the flag as it was
KeepSendFull(S, subscriber) == S

\* line 337: subscriber->send_full=0
ClearSendFull(S, subscriber) == [S EXCEPT ![subscriber].send_full = FALSE]

\* an encoder that does not record what it encoded
KeepPrevious(ctx, subscriber) == ctx

\* lines 350-351: context->previous = subscriber
SetPrevious(ctx, subscriber) == [ctx EXCEPT !.previous = subscriber]

\* overlay_address_append(context, b, subscriber), b with room bytes left.
\* Result: subs and context afterwards, the bytes written to b, the return value.
overlay_address_append(S, ctx, hasCtx, room, subscriber) ==
  IF subscriber = NULL
  THEN [subs |-> S, context |-> ctx, out |-> <<>>, ret |-> -1]
  ELSE
  LET form == AppendForm(ctx, hasCtx, subscriber)
      s == S[subscriber]
      len == IF s.send_full THEN SID_SIZE ELSE LiteralLen(s)
      S1 == IF form = "literal" /\ s.send_full THEN ClearSendFull(S, subscriber) ELSE S
      want == IF form = "self" THEN <<OA_CODE_SELF>>
              ELSE IF form = "previous" THEN <<OA_CODE_PREVIOUS>>
              ELSE <<len>> \o Take(s.sid, len)
      \* ob_append_byte, then ob_append_bytes: each fails as a whole
      out == IF room < 1 THEN <<>>
             ELSE IF room < Len(want) THEN <<want[1]>>
             ELSE want
      ok == out = want
  IN  [subs |-> S1,
       context |-> IF ok /\ hasCtx THEN SetPrevious(ctx, subscriber) ELSE ctx,
       out |-> out,
       ret |-> IF ok THEN 0 ELSE -1]

\* add_explain_response(subscriber, context): acc holds the subscribers and
\* the please_explain frame of the context; rc is the callback's return value
add_explain_response(acc, subscriber) ==
  LET pe0 == IF ~acc.pe.allocated THEN NewExplainFrame(EXPLAIN_LIMIT) ELSE acc.pe
      S1 == IF acc.subs[subscriber].reachable = REACHABLE_SELF
            THEN [acc.subs EXCEPT ![subscriber].send_full = TRUE] ELSE acc.subs
      b0 == pe0.payload
      b1 == ob_append_bytes(b0, <<SID_SIZE>>)
      b2 == ob_append_bytes(b1, acc.subs[subscriber].sid)
  IN  IF ~ob_fits(b0, 1) THEN [subs |-> S1, pe |-> pe0, rc |-> 1]
      ELSE IF ~ob_fits(b1, SID_SIZE)
      THEN [subs |-> S1, pe |-> [pe0 EXCEPT !.payload = b1], rc |-> 1]
      ELSE [subs |-> S1, pe |-> [pe0 EXCEPT !.payload = b2], rc |-> 0]

\* a walk that stops after its first callback
ExplainFirstOnly(acc, order) ==
  IF order = <<>> THEN acc ELSE add_explain_response(acc, Head(order))

RECURSIVE ExplainAll(_, _)
\* the callbacks of one walk, in order, until one returns non-zero
ExplainAll(acc, order) ==
  IF order = <<>> \/ acc.rc # 0 THEN acc
  ELSE ExplainAll(add_explain_response(acc, Head(order)), Tail(order))

\* walk_tree(&root, 0, id, len, id, len, add_explain_response, context)
walk_explain(N, S, pe, id) ==
  ExplainAll([subs |-> S, pe |-> pe, rc |-> 0], WalkOrder(N, id, id))

ParseResult(N, S, ctx, written, sub, ret) ==
  [nodes |-> N, subs |-> S, context |-> ctx, written |-> written, sub |-> sub, ret |-> ret]

\* an unresolved abbreviation that is not marked in the context
UnresolvedNotMarked(N, ctx, id, w) ==
  ParseResult(N, w.subs,
              [ctx EXCEPT !.please_explain =
                 [w.pe EXCEPT !.payload =
                    ob_append_bytes(ob_append_bytes(w.pe.payload, <<Len(id)>>), id)]],
              TRUE, NULL, 0)

\* lines 395-414: the abbreviation id is not resolved; w is the outcome of
\* the walk over the subscribers that match it
Unresolved(N, ctx, id, w) ==
  LET b1 == ob_append_bytes(w.pe.payload, <<Len(id)>>)
      b2 == ob_append_bytes(b1, id)
  IN  ParseResult(N, w.subs,
                  [ctx EXCEPT !.invalid_addresses = TRUE,
                              !.please_explain = [w.pe EXCEPT !.payload = b2]],
                  TRUE, NULL, 0)

\* a decoder that does not record the subscriber it resolved
ResolveForgetsPrevious(ctx, id, r) ==
  IF r.ret = NULL
  THEN Unresolved(r.nodes, ctx, id,
                  walk_explain(r.nodes, r.subs,
                               IF ~ctx.please_explain.allocated
                               THEN NewExplainFrame(MDP_MTU) ELSE ctx.please_explain,
                               id))
  ELSE ParseResult(r.nodes, r.subs, ctx, TRUE, r.ret, 0)

\* lines 393-419, r the outcome of find_subscriber(id, len, 1)
Resolve(ctx, id, r) ==
  IF r.ret = NULL
  THEN Unresolved(r.nodes, ctx, id,
                  walk_explain(r.nodes, r.subs,
                               IF ~ctx.please_explain.allocated
                               THEN NewExplainFrame(MDP_MTU) ELSE ctx.please_explain,
                               id))
  ELSE ParseResult(r.nodes, r.subs, [ctx EXCEPT !.previous = r.ret], TRUE, r.ret, 0)

\* a parse error that marks the context as well
ParseErrorMarksInvalid(N, S, ctx) ==
  ParseResult(N, S, [ctx EXCEPT !.invalid_addresses = TRUE], FALSE, NULL, -1)

\* lines 379, 384, 432: return WHY(...), which is -1
ParseError(N, S, ctx) == ParseResult(N, S, ctx, FALSE, NULL, -1)

\* find_subscr_buffer(context, b, len, subscriber): rest holds the bytes left
\* in b, hasOut says whether the caller passed a place for the result
find_subscr_buffer(N, S, ctx, rest, len, hasOut) ==
  IF len <= 0 \/ len > SID_SIZE THEN ParseError(N, S, ctx)
  ELSE IF Len(rest) < len THEN ParseError(N, S, ctx)
  ELSE IF ~hasOut
  THEN ParseResult(N, S, [ctx EXCEPT !.invalid_addresses = TRUE], FALSE, NULL, 0)
  ELSE Resolve(ctx, Take(rest, len), find_subscriber(N, S, Take(rest, len), len, TRUE))

\* a sentinel with nothing to stand for that asks for an explanation of itself
UnknownSentinelExplains(N, S, ctx, code) ==
  ParseResult(N, S,
              [ctx EXCEPT !.invalid_addresses = TRUE,
                          !.please_explain =
                             [allocated |-> TRUE,
                              payload |-> ob_append_bytes(
                                 IF ctx.please_explain.allocated
                                 THEN ctx.please_explain.payload ELSE ob_new(MDP_MTU),
                                 <<code>>)]],
              FALSE, NULL, 0)

\* lines 437-438, 447-448: the sender, or the previous address, is not set
UnknownSentinel(N, S, ctx, code) ==
  ParseResult(N, S, [ctx EXCEPT !.invalid_addresses = TRUE], FALSE, NULL, 0)

\* overlay_address_parse(context, b, subscriber): buf holds the bytes left in b
overlay_address_parse(N, S, ctx, buf, hasOut) ==
  IF buf = <<>> THEN ParseError(N, S, ctx)
  ELSE IF Head(buf) = OA_CODE_SELF
  THEN IF ctx.sender = NULL
       THEN UnknownSentinel(N, S, ctx, OA_CODE_SELF)
       ELSE ParseResult(N, S, [ctx EXCEPT !.previous = ctx.sender], TRUE, ctx.sender, 0)
  ELSE IF Head(buf) = OA_CODE_PREVIOUS
  THEN IF ctx.previous = NULL
       THEN UnknownSentinel(N, S, ctx, OA_CODE_PREVIOUS)
       ELSE ParseResult(N, S, ctx, TRUE, ctx.previous, 0)
  ELSE find_subscr_buffer(N, S, ctx, Tail(buf), Head(buf), hasOut)

----------------------------------------------------------------------------
(* Please-explain frames *)

REACHABLE_MODES == 14    \* REACHABLE: INDIRECT | UNICAST | BROADCAST
TTL_UNICAST == 64
TTL_BROADCAST == 1

\* a test for the direct modes only
HasDirectMode(reachable) == (reachable \div 2) % 4 # 0

\* subscriber->reachable & REACHABLE
HasReachableMode(reachable) == (reachable \div 2) % 8 # 0

\* send_please_explain(context, source, destination); accept is the answer
\* of overlay_payload_enqueue.  Result: subs and queue afterwards and the
\* return value.  (source = NULL with no my_subscriber is a NULL dereference
\* and is kept out by the callers' guards.)
send_please_explain(S, Q, ctx, source, destination, accept) ==
  IF ~ctx.please_explain.allocated THEN [subs |-> S, queue |-> Q, ret |-> 0]
  ELSE
  LET src == IF source # NULL THEN source ELSE my_subscriber
      unicast == destination # NULL /\ HasReachableMode(S[destination].reachable)
      resolved == ~unicast /\ ctx.interface # NULL
      frame == [source |-> src, destination |-> destination,
                ttl |-> IF unicast THEN TTL_UNICAST ELSE TTL_BROADCAST,
                bpi_generated |-> ~unicast,
                destination_resolved |-> resolved,
                next_hop |-> IF resolved THEN destination ELSE NULL,
                payload |-> ctx.please_explain.payload.bytes]
  IN  [subs |-> [S EXCEPT ![src].send_full = TRUE],
       queue |-> IF accept THEN Append(Q, frame) ELSE Q,
       ret |-> IF accept THEN 0 ELSE -1]

RECURSIVE ExplainLoop(_, _)
\* the while loop of process_explain, lines 501-518, over the bytes left in b
ExplainLoop(st, buf) ==
  IF buf = <<>> \/ st.ret # 0 THEN st
  ELSE
  LET len == Head(buf)
      rest == Tail(buf)
      sid == Take(rest, len)
      after == SubSeq(rest, len + 1, Len(rest))
  IN  IF len <= 0 \/ len > SID_SIZE THEN [st EXCEPT !.ret = -1]
      ELSE IF Len(rest) < len THEN [st EXCEPT !.ret = -1]
      ELSE IF len = SID_SIZE
      THEN Bind(find_subscriber(st.nodes, st.subs, sid, len, TRUE),
                LAMBDA r : ExplainLoop([st EXCEPT !.nodes = r.nodes, !.subs = r.subs], after))
      ELSE Bind(walk_explain(st.nodes, st.subs, st.pe, sid),
                LAMBDA w : ExplainLoop([st EXCEPT !.subs = w.subs, !.pe = w.pe], after))

\* process_explain(frame): the loop, then send_please_explain(&context,
\* frame->destination, frame->source) unless the payload was malformed
process_explain_send(l, Q, source, destination, accept) ==
  IF l.ret = 0
  THEN send_please_explain(l.subs, Q, [NullContext EXCEPT !.please_explain = l.pe],
                           destination, source, accept)
  ELSE [subs |-> l.subs, queue |-> Q, ret |-> 0]
\* process_explain(frame) on the directory (N, S) and the queue Q: what they
\* are afterwards and the return value
process_explain(N, S, Q, payload, source, destination, accept) ==
  Bind(ExplainLoop([nodes |-> N, subs |-> S, pe |-> NoFrame, ret |-> 0], payload),
       LAMBDA l :
         Bind(process_explain_send(l, Q, source, destination, accept),
              LAMBDA r : [nodes |-> l.nodes, subs |-> r.subs, queue |-> r.queue,
                          pe |-> l.pe, ret |-> l.ret]))

----------------------------------------------------------------------------
(* The broadcast cache *)

RECURSIVE XorBits(_, _, _)
\* a ^ b on the low n bits
XorBits(a, b, n) ==
  IF n = 0 THEN 0 ELSE ((a + b) % 2) + (2 * XorBits(a \div 2, b \div 2, n - 1))

\* line 298: ((bpi_index<<3)&0xfff8)+((bpi_index>>13)&0x7)
HashRotate(h) == ((h * 8) % 65536) + ((h \div 8192) % 8)

\* line 299: bpi_index^=addr->id[i]
HashXor(h, byte) == XorBits(h, byte, 16)

RECURSIVE HashBytes(_, _)
\* the for loop of lines 296-300 over the bytes left of addr->id
HashBytes(h, id) ==
  IF id = <<>> THEN h ELSE HashBytes(HashXor(HashRotate(h), Head(id)), Tail(id))

\* an index that is not masked
MaskIndexWide(h) == h

\* line 301: bpi_index&=BPI_MASK
MaskIndex(h) == h % (BPI_MASK + 1)

bpi_index(id) == MaskIndex(HashBytes(0, id))

\* bpilist[index].id: a slot never written holds the zeros of static storage
SlotId(list, index) == IF index \in DOMAIN list THEN list[index] ELSE Zeros(BROADCAST_LEN)

\* a check that does not record the BPI
BcopyNothing(list, index, id) == list

\* line 306: bcopy(addr->id, bpilist[bpi_index].id, BROADCAST_LEN)
bcopy_slot(list, index, id) == (index :> id) @@ list

\* overlay_broadcast_drop_check(addr) on the cache list: the cache afterwards,
\* the slot index and the return value
overlay_broadcast_drop_check(list, id) ==
  LET index == bpi_index(id)
  IN  IF SlotId(list, index) # id
      THEN [list |-> bcopy_slot(list, index, id), index |-> index, ret |-> 0]
      ELSE [list |-> list, index |-> index, ret |-> 1]

----------------------------------------------------------------------------
(* Reachability *)

REACHABLE_DIRECT == REACHABLE_BROADCAST + REACHABLE_UNICAST

RECURSIVE AndBits(_, _, _)
\* a & b on the low n bits
AndBits(a, b, n) ==
  IF n = 0 THEN 0 ELSE ((a % 2) * (b % 2)) + (2 * AndBits(a \div 2, b \div 2, n - 1))

\* a & b for reachable values
BitAnd(a, b) == AndBits(a, b, 5)

\* a test that does not look at the state of the interface
InterfaceCheckIgnoresState(S, I, subscriber, ret) ==
  IF BitAnd(ret, REACHABLE_DIRECT) # 0 /\ S[subscriber].interface = NULL
  THEN REACHABLE_NONE ELSE ret

\* lines 183-189: make sure the interface is still up
InterfaceCheck(S, I, subscriber, ret) ==
  IF BitAnd(ret, REACHABLE_DIRECT) # 0
  THEN IF S[subscriber].interface = NULL THEN REACHABLE_NONE
       ELSE IF I[S[subscriber].interface] # INTERFACE_STATE_UP THEN REACHABLE_NONE
       ELSE ret
  ELSE ret

\* a test that lets an assumed next hop pass
HopResultAllowsAssumed(r, ret) ==
  IF BitAnd(r, REACHABLE_DIRECT) = 0 THEN REACHABLE_NONE ELSE ret

\* lines 176-179: r is what subscriber_is_reachable(subscriber->next_hop) returned
HopResult(r, ret) ==
  IF BitAnd(r, REACHABLE_ASSUMED) # 0 THEN REACHABLE_NONE
  ELSE IF BitAnd(r, REACHABLE_DIRECT) = 0 THEN REACHABLE_NONE
  ELSE ret

RECURSIVE subscriber_is_reachable(_, _, _)
\* int subscriber_is_reachable(subscriber), S the subscribers and I the
\* interface states
subscriber_is_reachable(S, I, subscriber) ==
  IF subscriber = NULL THEN REACHABLE_NONE
  ELSE InterfaceCheck(S, I, subscriber,
         IF S[subscriber].reachable = REACHABLE_INDIRECT
         THEN IF S[subscriber].next_hop = NULL THEN REACHABLE_NONE
              ELSE IF BitAnd(S[S[subscriber].next_hop].reachable, REACHABLE_DIRECT) = 0
              THEN REACHABLE_NONE
              ELSE HopResult(subscriber_is_reachable(S, I, S[subscriber].next_hop),
                             S[subscriber].reachable)
         ELSE S[subscriber].reachable)

\* lines 194-198: set_reachable(subscriber, reachable): the subscribers
\* afterwards
set_reachable(S, subscriber, reachable) ==
  IF S[subscriber].reachable = reachable THEN S
  ELSE [S EXCEPT ![subscriber].reachable = reachable]

\* no call of the keyring or of the directory service
NoCalls == [keyring_send_sas_request |-> FALSE, directory_registration |-> FALSE]

\* a request made whether or not the signing key is known
SasRequestIgnoresValid(S, subscriber, reachable) == HasReachableMode(reachable)

\* line 228: !subscriber->sas_valid && reachable&REACHABLE
SasRequest(S, subscriber, reachable) ==
  ~S[subscriber].sas_valid /\ HasReachableMode(reachable)

\* lines 195-233: what set_reachable(subscriber, reachable) asks of the
\* keyring and of the directory service, ds being directory_service
set_reachable_calls(S, ds, subscriber, reachable) ==
  IF S[subscriber].reachable = reachable THEN NoCalls
  ELSE [keyring_send_sas_request |-> SasRequest(S, subscriber, reachable),
        directory_registration   |-> (subscriber = ds)]

\* htons(port) on a little-endian host: the two bytes of the port swapped
htons(port) == ((port % 256) * 256) + ((port \div 256) % 256)

\* a test that never finds the subscriber in the routing layer
NeverKnown(hasNode) == FALSE

\* line 243: subscriber->node
AlreadyKnown(hasNode) == hasNode

\* reachable_unicast(subscriber, interface, addr, port); hasNode says whether
\* the routing layer holds a node for the subscriber, ds is directory_service
reachable_unicast(S, ds, subscriber, interface, addr, port, hasNode) ==
  IF HasReachableMode(S[subscriber].reachable)
  THEN [subs |-> S, calls |-> NoCalls, ret |-> -1]
  ELSE IF AlreadyKnown(hasNode)
  THEN [subs |-> S, calls |-> NoCalls, ret |-> -1]
  ELSE LET W == [S EXCEPT ![subscriber].interface = interface,
                          ![subscriber].address =
                             [sin_family |-> AF_INET, sin_addr |-> addr,
                              sin_port |-> htons(port)]]
       IN  [subs  |-> set_reachable(W, subscriber, REACHABLE_UNICAST),
            calls |-> set_reachable_calls(W, ds, subscriber, REACHABLE_UNICAST),
            ret   |-> 0]

----------------------------------------------------------------------------
(* The index-table encoder of the companion file *)

\* abbrs == NULL, cache == NULL; cache_size is OVERLAY_ADDRESS_CACHE_SIZE once
\* a call has read it (-1 before), exited says that exit() was called
NoTable ==
  [allocated |-> FALSE, sids |-> <<>>, byfirstbyte |-> <<>>, next_free |-> 0,
   cache_size |-> -1, exited |-> FALSE]

\* no call yet
NoCall == [in |-> <<>>, out |-> <<>>, ret |-> 0]

\* abbrs->sids[index]: the entries written so far, the others as calloc left them
TableSid(T, index) == IF index \in DOMAIN T.sids THEN T.sids[index] ELSE Zeros(SID_SIZE)

\* abbrs->byfirstbyte[byte][i]
ByFirstByte(T, byte, i) ==
  IF <<byte, i>> \in DOMAIN T.byfirstbyte THEN T.byfirstbyte[<<byte, i>>] ELSE 0

\* overlay_abbreviate_cache_address(sid) with no cache yet: with a cache size
\* of 0 nothing is allocated and 0 is returned (lines 138, 162); with another
\* size the cache is allocated, or 0 is returned when its calloc fails (line
\* 147), and, shift being the number of bits of the size (line 156),
\* (1<<shift) != size calls exit (lines 158-159)
overlay_abbreviate_cache_address(size, callocOk) ==
  IF size = 0 THEN [exited |-> FALSE, ret |-> 0]
  ELSE IF ~callocOk THEN [exited |-> FALSE, ret |-> 0]
  ELSE [exited |-> TRUE, ret |-> 0]

\* overlay_abbreviate_try_byindex(in, out, ofs, index): the bytes written
\* and the return value
overlay_abbreviate_try_byindex(T, in, index) ==
  IF in = TableSid(T, index) THEN [out |-> <<1, index>>, ret |-> 0]
  ELSE [out |-> <<>>, ret |-> 1]

RECURSIVE TryLoop(_, _, _)
\* the for loop over i = 0, 1: the index of the loop is what
\* overlay_abbreviate_try_byindex is given; i is the value at which the loop
\* was left, done says that a try wrote the address
TryLoop(T, in, i) ==
  IF i >= 2 THEN [i |-> i, done |-> FALSE, out |-> <<>>]
  ELSE IF ByFirstByte(T, in[1], i) = 0 THEN [i |-> i, done |-> FALSE, out |-> <<>>]
  ELSE LET r == overlay_abbreviate_try_byindex(T, in, i)
       IN  IF r.ret = 0 THEN [i |-> i, done |-> TRUE, out |-> r.out]
           ELSE TryLoop(T, in, i + 1)

\* overlay_abbreviate_address(in, out, ofs) after the cache was asked: T is
\* the table, tableOk says whether calloc gives a table when there is none,
\* wasInCachedP is what overlay_abbreviate_cache_address returned
overlay_abbreviate_address(T, in, tableOk, wasInCachedP) ==
  IF in[1] < 16 THEN [abbrs |-> T, out |-> <<>>, ret |-> -1]
  ELSE IF ~T.allocated /\ ~tableOk THEN [abbrs |-> T, out |-> in, ret |-> 0]
  ELSE
  LET T1 == IF T.allocated THEN T ELSE [T EXCEPT !.allocated = TRUE, !.next_free = 1]
      l == TryLoop(T1, in, 0)
  IN  IF l.done THEN [abbrs |-> T1, out |-> l.out, ret |-> 0]
      ELSE IF l.i < 2 /\ T1.next_free # 0
      THEN [abbrs |-> [T1 EXCEPT !.sids = (T1.next_free :> in) @@ @,
                                 !.byfirstbyte = (<<in[1], l.i>> :> T1.next_free) @@ @,
                                 !.next_free = (@ + 1) % 256],
            out |-> <<8>> \o in \o <<T1.next_free>>,
            ret |-> 0]
      ELSE IF wasInCachedP # 0
      THEN [abbrs |-> T1, out |-> <<6>> \o Take(in, 7), ret |-> 0]
      ELSE [abbrs |-> T1, out |-> in, ret |-> 0]

----------------------------------------------------------------------------
(* The state machine *)

Init ==
  /\ nodes = <<EmptyNode>>
  /\ subs = <<>>
  /\ my_subscriber = NULL
  /\ context = NullContext
  /\ frame_dir = "none"
  /\ ndecoded = 0
  /\ out_limit = 0
  /\ encoded = <<>>
  /\ queue = <<>>
  /\ bpilist = <<>>
  /\ checked = <<>>
  /\ interfaces = [i \in 1..NumInterfaces |-> INTERFACE_STATE_DOWN]
  /\ directory_service = NULL
  /\ calls = NoCalls
  /\ enumerated = <<>>
  /\ abbrs = NoTable
  /\ abbr_call = NoCall

Subscribers == 1..Len(subs)
SubscribersOrNull == 0..Len(subs)

\* Prefixes a caller may look up: the leading len bytes of a model node ID
PrefixLens == {1, 2, 3, SID_SIZE - 1, SID_SIZE}
Prefixes == {Take(s, n) : s \in Sids, n \in PrefixLens}

\* a call find_subscriber(id, len, create) from the rest of the program
FindSubscriber(id, create) ==
  \E r \in {find_subscriber(nodes, subs, id, Len(id), create)} :
      /\ Len(r.subs) <= MaxSubs
      /\ nodes' = r.nodes
      /\ subs' = r.subs
      /\ UNCHANGED <<my_subscriber, codecVars, cacheVars, interfaces, routeVars, enumerated, abbrVars>>

\* the keyring enters the local identity: my_subscriber is looked up with
\* create and marked REACHABLE_SELF
EnterIdentity(sid) ==
  /\ my_subscriber = NULL
  /\ \E r \in {find_subscriber(nodes, subs, sid, SID_SIZE, TRUE)} :
      /\ Len(r.subs) <= MaxSubs
      /\ nodes' = r.nodes
      /\ subs' = [r.subs EXCEPT ![r.ret].reachable = REACHABLE_SELF]
      /\ my_subscriber' = r.ret
      /\ UNCHANGED <<codecVars, cacheVars, interfaces, routeVars, enumerated, abbrVars>>

\* a received frame is taken in hand with a zeroed context; the packet
\* layer sets the sender
StartInFrame(sender) ==
  /\ frame_dir = "none"
  /\ frame_dir' = "in"
  /\ context' = [NullContext EXCEPT !.sender = sender]
  /\ ndecoded' = 0
  /\ UNCHANGED <<dirVars, out_limit, encoded, queue, cacheVars, interfaces, routeVars, enumerated, abbrVars>>

\* a frame or payload to send is started: an empty buffer limited to limit
\* bytes and, for kind "out", a zeroed context with the sender set; the
\* addresses of an "out_nocontext" buffer are appended with context NULL
StartOutFrame(kind, sender, limit) ==
  /\ frame_dir = "none"
  /\ kind \in {"out", "out_nocontext"}
  /\ ~(kind = "out_nocontext" /\ sender # NULL)
  /\ frame_dir' = kind
  /\ context' = [NullContext EXCEPT !.sender = sender]
  /\ out_limit' = limit
  /\ encoded' = <<>>
  /\ UNCHANGED <<dirVars, ndecoded, queue, cacheVars, interfaces, routeVars, enumerated, abbrVars>>

RECURSIVE OutLen(_)
\* the bytes in the buffer of the frame being built
OutLen(log) == IF log = <<>> THEN 0 ELSE Len(Head(log).out) + OutLen(Tail(log))

\* overlay_address_append on the buffer being built
AddressAppend(subscriber) ==
  /\ frame_dir \in {"out", "out_nocontext"}
  /\ Len(encoded) < MaxEnc
  /\ \E r \in {overlay_address_append(subs, context, frame_dir = "out",
                                      out_limit - OutLen(encoded), subscriber)} :
      /\ subs' = r.subs
      /\ context' = r.context
      /\ encoded' = Append(encoded, [sub |-> subscriber, out |-> r.out, ret |-> r.ret])
      /\ UNCHANGED <<nodes, my_subscriber, frame_dir, ndecoded, out_limit, queue,
                     cacheVars, interfaces, routeVars, enumerated, abbrVars>>

\* the builder is done with the outbound frame
EndOutFrame ==
  /\ frame_dir \in {"out", "out_nocontext"}
  /\ frame_dir' = "none"
  /\ context' = NullContext
  /\ out_limit' = 0
  /\ encoded' = <<>>
  /\ UNCHANGED <<dirVars, ndecoded, queue, cacheVars, interfaces, routeVars, enumerated, abbrVars>>

\* Subscriber records a peer's directory may hold for a node ID
PeerAbbreviateLens == {1, 2, 4, 2 * SID_SIZE}
PeerRecords ==
  [sid : Sids, abbreviate_len : PeerAbbreviateLens,
   reachable : {REACHABLE_NONE, REACHABLE_SELF}, send_full : BOOLEAN,
   next_hop : {NULL}, interface : {NULL}, sas_valid : {FALSE}, address : {NoAddress}]

BigRoom == 4 * (SID_SIZE + 1)

\* what a peer's overlay_address_append writes for such a record with an
\* empty context
PeerEncoded(rec) == overlay_address_append(<<rec>>, NullContext, TRUE, BigRoom, 1).out

\* Byte strings a received frame may hold where an address is expected:
\* the sentinels, what peers encode, and malformed input
InBuffers ==
  {<<>>, <<OA_CODE_SELF>>, <<OA_CODE_PREVIOUS>>, <<0>>, <<SID_SIZE + 1>>, <<2, 16>>}
  \cup {PeerEncoded(rec) : rec \in PeerRecords}

IsSentinel(buf) == buf # <<>> /\ Head(buf) \in {OA_CODE_SELF, OA_CODE_PREVIOUS}

\* overlay_address_parse on the frame being decoded, a frame of at most
\* `most` addresses.  (A sentinel that resolves is written through
\* *subscriber, so those calls pass one.)
ParseAddress(buf, hasOut, most) ==
  /\ frame_dir = "in"
  /\ ndecoded < most
  /\ ~(~hasOut /\ IsSentinel(buf))
  /\ \E r \in {overlay_address_parse(nodes, subs, context, buf, hasOut)} :
      /\ Len(r.subs) <= MaxSubs
      /\ nodes' = r.nodes
      /\ subs' = r.subs
      /\ context' = r.context
      /\ ndecoded' = ndecoded + 1
      /\ UNCHANGED <<my_subscriber, frame_dir, out_limit, encoded, queue,
                     cacheVars, interfaces, routeVars, enumerated, abbrVars>>

AddressParse(buf, hasOut) == ParseAddress(buf, hasOut, MaxDec)

\* the frame is fully decoded: send_please_explain(&context, source, destination);
\* interface is what the packet layer put in context->interface
SendPleaseExplain(source, destination, interface, accept) ==
  /\ frame_dir = "in"
  /\ ~(context.please_explain.allocated /\ source = NULL /\ my_subscriber = NULL)
  /\ \E r \in {send_please_explain(subs, queue, [context EXCEPT !.interface = interface],
                                  source, destination, accept)} :
      /\ subs' = r.subs
      /\ queue' = r.queue
  /\ frame_dir' = "none"
  /\ context' = NullContext
  /\ ndecoded' = 0
  /\ UNCHANGED <<nodes, my_subscriber, out_limit, encoded, cacheVars, interfaces, routeVars, enumerated, abbrVars>>

\* Payloads of received please-explain frames
ExplainPayloads ==
  {<<>>, <<0>>, <<SID_SIZE + 1>>, <<2, 16>>, <<1, 16>>, <<1, 32>>, <<2, 16, 0>>}
  \cup {<<SID_SIZE>> \o s : s \in Sids}
  \cup {<<SID_SIZE>> \o SidB \o <<SID_SIZE>> \o SidE, <<SID_SIZE>> \o SidB \o <<1, 16>>,
        <<1, 16>> \o <<SID_SIZE>> \o SidB, <<1, 16, 2, 16, 0>>, <<1, 16, 0>>}

\* process_explain(frame) for a received frame with this payload; source and
\* destination are the frame's, accept the answer of overlay_payload_enqueue
ProcessExplain(payload) ==
  \E l \in {ExplainLoop([nodes |-> nodes, subs |-> subs, pe |-> NoFrame, ret |-> 0],
                        payload)} :
      /\ Len(l.subs) <= MaxSubs
      /\ \E source \in SubscribersOrNull, destination \in {NULL, my_subscriber},
            accept \in BOOLEAN :
            /\ ~(l.ret = 0 /\ l.pe.allocated /\ destination = NULL /\ my_subscriber = NULL)
            /\ \E r \in {process_explain_send(l, queue, source, destination, accept)} :
                  /\ subs' = r.subs
                  /\ queue' = r.queue
      /\ nodes' = l.nodes
      /\ UNCHANGED <<my_subscriber, context, frame_dir, ndecoded, out_limit, encoded,
                     cacheVars, interfaces, routeVars, enumerated, abbrVars>>

\* the queue hands its first frame to an interface
Transmit ==
  /\ queue # <<>>
  /\ queue' = Tail(queue)
  /\ UNCHANGED <<dirVars, context, frame_dir, ndecoded, out_limit, encoded,
               cacheVars, interfaces, routeVars, enumerated, abbrVars>>

OutLimits == {2, BigRoom}

\* The event loop runs one handler at a time: no other handler runs while a
\* frame is decoded or built, and a queued frame is sent before the next
\* event is taken.
Idle == frame_dir = "none" /\ queue = <<>>

----------------------------------------------------------------------------
(* The directory alone: lookups and insertions by any caller *)

NextDir ==
  \/ \E id \in Prefixes, create \in BOOLEAN : FindSubscriber(id, create)
  \/ \E sid \in Sids : EnterIdentity(sid)

SpecDir == Init /\ [][NextDir]_vars

\* What the event loop does between frames: a node ID is entered in the
\* directory, and the keyring enters the local identity before anything else
DirectoryEvent(sids) ==
  /\ Idle
  /\ \E sid \in sids : IF subs = <<>> /\ my_subscriber = NULL
                        THEN EnterIdentity(sid) \/ FindSubscriber(sid, TRUE)
                        ELSE FindSubscriber(sid, TRUE)

(* Frames being built, and the please-explain frames that ask for a full  *)
(* address                                                                 *)

NextOut ==
  \/ DirectoryEvent(Sids)
  \/ Idle /\ \E p \in ExplainPayloads : ProcessExplain(p)
  \/ Transmit
  \/ Idle /\ \E s \in {NULL, my_subscriber}, l \in OutLimits : StartOutFrame("out", s, l)
  \/ Idle /\ StartOutFrame("out_nocontext", NULL, BigRoom)
  \/ \E s \in Subscribers : AddressAppend(s)
  \/ EndOutFrame

SpecOut == Init /\ [][NextOut]_vars

(* Frames being decoded *)

InSids == {SidA, SidB, SidD}

NextIn ==
  \/ DirectoryEvent(InSids)
  \/ Idle /\ \E s \in SubscribersOrNull : StartInFrame(s)
  \/ \E buf \in InBuffers : AddressParse(buf, TRUE)
  \/ \E buf \in {<<1, 16>>, <<0>>} : AddressParse(buf, FALSE)
  \/ \E s \in {NULL, my_subscriber}, d \in {NULL, context.sender}, i \in {NULL, 1},
        a \in BOOLEAN : SendPleaseExplain(s, d, i, a)
  \/ Idle /\ \E p \in ExplainPayloads : ProcessExplain(p)
  \/ Transmit

SpecIn == Init /\ [][NextIn]_vars

(* Long frames: many addresses that ask for an explanation *)

LongSids == {SidA, SidB, SidD}

\* the one-byte abbreviation 10, which SidA and SidB both begin with
LongBuffers == {<<1, 16>>}

NextLong ==
  \/ DirectoryEvent(LongSids)
  \/ Idle /\ \E s \in {NULL, my_subscriber} : StartInFrame(s)
  \/ \E buf \in LongBuffers : ParseAddress(buf, TRUE, MaxLongDec)
  \/ \E s \in {NULL, my_subscriber} : SendPleaseExplain(s, context.sender, NULL, TRUE)
  \/ Transmit

SpecLong == Init /\ [][NextLong]_vars

(* Please-explain frames received *)

NextExplain ==
  \/ DirectoryEvent(InSids)
  \/ Idle /\ \E p \in ExplainPayloads : ProcessExplain(p)
  \/ Transmit

SpecExplain == Init /\ [][NextExplain]_vars

(* The broadcast cache alone *)

\* BPIs of received frames: the zeros, the 00..07 of the tests, two that
\* share slot 8, and one whose hash has a bit above the mask
BpiZero == Zeros(BROADCAST_LEN)
Bpi07 == <<0, 1, 2, 3, 4, 5, 6, 7>>
BpiX == <<0, 0, 0, 0, 0, 0, 1, 0>>
BpiY == <<0, 0, 0, 0, 0, 0, 0, 8>>
BpiHigh == <<128, 0, 0, 0, 0, 0, 0, 0>>
Bpis == {BpiZero, Bpi07, BpiX, BpiY, BpiHigh}

\* overlay_broadcast_drop_check(addr) for a received broadcast frame
DropCheck(id) ==
  /\ Len(checked) < MaxChecks
  /\ \E r \in {overlay_broadcast_drop_check(bpilist, id)} :
      /\ bpilist' = r.list
      /\ checked' = Append(checked, [id |-> id, index |-> r.index, ret |-> r.ret])
  /\ UNCHANGED <<dirVars, codecVars, interfaces, routeVars, enumerated, abbrVars>>

NextBpi == \E id \in Bpis : DropCheck(id)

SpecBpi == Init /\ [][NextBpi]_vars

(* Routes: the reachability of the subscribers of the directory *)

\* the address and port a unicast reply came from
PeerAddr == 167772161
PeerPort == 4110

ReachSids == {SidA, SidB, SidD}

\* The values the rest of the program gives set_reachable (the cases of its
\* switch, lines 201-224)
ReachableValues ==
  {REACHABLE_NONE, REACHABLE_SELF, REACHABLE_INDIRECT, REACHABLE_UNICAST,
   REACHABLE_BROADCAST, REACHABLE_UNICAST + REACHABLE_ASSUMED,
   REACHABLE_BROADCAST + REACHABLE_ASSUMED}

\* The routing layer records how a subscriber is reached, then calls
\* set_reachable: a next hop for an indirect route, an interface (or none)
\* for a direct one
SetReachable(subscriber, reachable, next_hop, interface) ==
  /\ next_hop # NULL => reachable = REACHABLE_INDIRECT
  /\ interface # NULL => BitAnd(reachable, REACHABLE_DIRECT) # 0
  /\ subs' = set_reachable([subs EXCEPT ![subscriber].next_hop = next_hop,
                                        ![subscriber].interface = interface],
                           subscriber, reachable)
  /\ calls' = set_reachable_calls(subs, directory_service, subscriber, reachable)
  /\ UNCHANGED <<nodes, my_subscriber, codecVars, cacheVars, interfaces, directory_service,
                 enumerated, abbrVars>>

\* a unicast reply was received from the subscriber on the interface
ReachableUnicast(subscriber, interface, addr, port, hasNode) ==
  /\ \E r \in {reachable_unicast(subs, directory_service, subscriber, interface, addr,
                                  port, hasNode)} :
        /\ subs' = r.subs
        /\ calls' = r.calls
  /\ UNCHANGED <<nodes, my_subscriber, codecVars, cacheVars, interfaces, directory_service,
                 enumerated, abbrVars>>

Interfaces == 1..NumInterfaces
InterfacesOrNull == 0..NumInterfaces

\* the interface table reports that an interface went up or down
InterfaceState(interface, state) ==
  /\ interfaces' = [interfaces EXCEPT ![interface] = state]
  /\ UNCHANGED <<dirVars, codecVars, cacheVars, routeVars, enumerated, abbrVars>>

NextReach ==
  \/ DirectoryEvent(ReachSids)
  \/ \E s \in Subscribers, m \in ReachableValues, n \in SubscribersOrNull,
        i \in InterfacesOrNull : SetReachable(s, m, n, i)
  \/ \E i \in Interfaces, st \in {INTERFACE_STATE_DOWN, INTERFACE_STATE_UP} :
        InterfaceState(i, st)

SpecReach == Init /\ [][NextReach]_vars

(* Routes, signing keys and the directory service *)

RouteSids == {SidA, SidB}

\* the keyring has the signing key of the subscriber
SasResponse(subscriber) ==
  /\ ~subs[subscriber].sas_valid
  /\ subs' = [subs EXCEPT ![subscriber].sas_valid = TRUE]
  /\ UNCHANGED <<nodes, my_subscriber, codecVars, cacheVars, interfaces, routeVars, enumerated, abbrVars>>

\* the configuration names a directory service
LoadDirectoryService(subscriber) ==
  /\ directory_service = NULL
  /\ directory_service' = subscriber
  /\ UNCHANGED <<dirVars, codecVars, cacheVars, interfaces, calls, enumerated, abbrVars>>

NextRoute ==
  \/ DirectoryEvent(RouteSids)
  \/ \E s \in Subscribers, m \in ReachableValues, i \in InterfacesOrNull :
        SetReachable(s, m, NULL, i)
  \/ \E s \in Subscribers, i \in Interfaces, n \in BOOLEAN :
        ReachableUnicast(s, i, PeerAddr, PeerPort, n)
  \/ \E s \in Subscribers : SasResponse(s)
  \/ \E s \in Subscribers : LoadDirectoryService(s)

SpecRoute == Init /\ [][NextRoute]_vars

(* Enumerations of the directory *)

\* a caller enumerates the directory from a subscriber on, with a callback
\* that stops the walk at its stopAt-th call, or never
EnumSubscribers(start, stopAt) ==
  /\ enumerated' = enum_subscribers(nodes, subs, start, stopAt)
  /\ UNCHANGED <<dirVars, codecVars, cacheVars, interfaces, routeVars, abbrVars>>

NextEnum ==
  \/ DirectoryEvent(Sids)
  \/ \E start \in Subscribers, stopAt \in 0..MaxSubs : EnumSubscribers(start, stopAt)

SpecEnum == Init /\ [][NextEnum]_vars

(* A please-explain exchange: requests are processed and the replies they  *)
(* cause are processed in turn, as the peer that receives them does        *)

RECURSIVE Repeat(_, _)
\* n copies of the bytes bs
Repeat(bs, n) == IF n = 0 THEN <<>> ELSE bs \o Repeat(bs, n - 1)

\* requests: abbreviations to explain, one of them sixteen times over
RequestRepeats == 16
RequestPayloads == {<<1, 16>>, <<1, 32>>, <<2, 16, 1>>, Repeat(<<1, 16>>, RequestRepeats)}

\* the frame at the head of the queue reaches its peer, which hands its
\* payload to process_explain
ProcessReply ==
  /\ frame_dir = "none"
  /\ queue # <<>>
  /\ \E l \in {ExplainLoop([nodes |-> nodes, subs |-> subs, pe |-> NoFrame, ret |-> 0],
                           Head(queue).payload)} :
        /\ Len(l.subs) <= MaxSubs
        /\ \E accept \in BOOLEAN :
              \E r \in {process_explain_send(l, Tail(queue), Head(queue).destination,
                                             Head(queue).source, accept)} :
                  /\ subs' = r.subs
                  /\ queue' = r.queue
        /\ nodes' = l.nodes
  /\ UNCHANGED <<my_subscriber, context, frame_dir, ndecoded, out_limit, encoded,
                 cacheVars, interfaces, routeVars, enumerated, abbrVars>>

NextReply ==
  \/ DirectoryEvent(InSids)
  \/ Idle /\ \E p \in RequestPayloads : ProcessExplain(p)
  \/ ProcessReply
  \/ Transmit

SpecReply == Init /\ [][NextReply]_vars

(* The index-table encoder: addresses written one after the other *)

\* addresses handed to the encoder: two with the same first byte, one with
\* another, and one whose first byte is a reserved prefix
AbbrAddresses == {SidA, SidB, SidD, Zeros(SID_SIZE)}

\* the sizes the address cache may be configured with
CacheSizes == {0, 1024}

\* a caller writes an address with overlay_abbreviate_address
AbbreviateAddress(in, size, cacheOk, tableOk) ==
  /\ ~abbrs.exited
  /\ abbrs.cache_size \in {-1, size}
  /\ \E c \in {overlay_abbreviate_cache_address(size, cacheOk)} :
        IF c.exited
        THEN /\ abbrs' = [abbrs EXCEPT !.cache_size = size, !.exited = TRUE]
             /\ abbr_call' = [in |-> in, out |-> <<>>, ret |-> -1]
        ELSE \E r \in {overlay_abbreviate_address([abbrs EXCEPT !.cache_size = size], in,
                                                  tableOk, c.ret)} :
                /\ abbrs' = r.abbrs
                /\ abbr_call' = [in |-> in, out |-> r.out, ret |-> r.ret]
  /\ UNCHANGED <<dirVars, codecVars, cacheVars, interfaces, routeVars, enumerated>>

NextAbbr ==
  \E in \in AbbrAddresses, size \in CacheSizes, cacheOk \in BOOLEAN, tableOk \in BOOLEAN :
      AbbreviateAddress(in, size, cacheOk, tableOk)

SpecAbbr == Init /\ [][NextAbbr]_vars

(* Please-explain frames sent after decoding, to senders that are reachable *)
(* or not                                                                  *)

SendSids == {SidA, SidB}
SendBuffers == {<<1, 16>>, <<2, 16, 1>>}

NextSend ==
  \/ DirectoryEvent(SendSids)
  \/ Idle /\ \E s \in Subscribers, m \in ReachableValues \ {REACHABLE_SELF} :
               SetReachable(s, m, NULL, NULL)
  \/ Idle /\ \E s \in SubscribersOrNull : StartInFrame(s)
  \/ \E buf \in SendBuffers : AddressParse(buf, TRUE)
  \/ \E s \in {NULL, my_subscriber}, d \in {NULL, context.sender}, i \in {NULL, 1},
        a \in BOOLEAN : SendPleaseExplain(s, d, i, a)
  \/ Transmit

SpecSend == Init /\ [][NextSend]_vars

----------------------------------------------------------------------------
(* Properties of the directory *)

\* C1: every node ID ever inserted stays in the directory: a full-length
\* lookup without create returns the very record the insertion returned
\* (subscriber i of the arena, however often its slot was split since), a
\* lookup with create returns that record too and adds none, no two records
\* hold the same ID, and no operation removes or renumbers a record.
InsertedStay ==
  /\ [](\A i \in Subscribers :
          /\ find_subscriber(nodes, subs, subs[i].sid, SID_SIZE, FALSE).ret = i
          /\ Bind(find_subscriber(nodes, subs, subs[i].sid, SID_SIZE, TRUE),
                  LAMBDA r : r.ret = i /\ r.subs = subs /\ r.nodes = nodes)
          /\ \A j \in Subscribers : subs[i].sid = subs[j].sid => i = j)
  /\ [][/\ Len(subs') >= Len(subs)
         /\ \A i \in Subscribers : subs'[i].sid = subs[i].sid]_vars

\* SidA was inserted first, its slot was split by SidB and again, down to
\* depth 64, by an ID that only a received frame brings (SidE), and it is
\* still found
InsertedStayWitness ==
  /\ Len(subs) = 3
  /\ subs[1].sid = SidA
  /\ subs[1].abbreviate_len = 2 * SID_SIZE
  /\ \E i \in Subscribers : subs[i].sid = SidB
  /\ find_subscriber(nodes, subs, SidA, SID_SIZE, FALSE).ret = 1

\* C2: in every reachable directory, a lookup of a len-byte prefix without
\* create returns subscriber s exactly when s is the only subscriber whose
\* sid begins with those bytes; it returns none when no subscriber or more
\* than one begins with them.
UniquePrefixLookup ==
  \A p \in Prefixes :
      LET matching == {i \in Subscribers : Take(subs[i].sid, Len(p)) = p}
      IN  \E ret \in {find_subscriber(nodes, subs, p, Len(p), FALSE).ret} :
              /\ ret \in SubscribersOrNull
              /\ \A s \in Subscribers : (ret = s) <=> (matching = {s})

\* SidA and SidB are both in the directory: the one byte they share resolves
\* to none, two bytes resolve to SidA, and a prefix nobody has resolves to none
UniquePrefixLookupWitness ==
  /\ \E i, j \in Subscribers : subs[i].sid = SidA /\ subs[j].sid = SidB
  /\ \A i \in Subscribers : subs[i].sid # SidD
  /\ find_subscriber(nodes, subs, <<16>>, 1, FALSE).ret = NULL
  /\ find_subscriber(nodes, subs, <<32>>, 1, FALSE).ret = NULL
  /\ \E i \in Subscribers :
        subs[i].sid = SidA /\ find_subscriber(nodes, subs, <<16, 0>>, 2, FALSE).ret = i

\* the number of leading nibbles two node IDs share
CommonNibbles(a, b) ==
  CHOOSE n \in 0..(2 * SID_SIZE) :
      /\ \A k \in 0..(n - 1) : get_nibble(a, k) = get_nibble(b, k)
      /\ ~(n < 2 * SID_SIZE /\ get_nibble(a, n) = get_nibble(b, n))

\* C3 as stated: for distinct inserted A and B that share their first L
\* nibbles, the lookup of the first ceil(L/2) bytes of A returns none.
CeilBytesAmbiguous ==
  \A i, j \in Subscribers :
      i # j =>
        \A L \in 1..CommonNibbles(subs[i].sid, subs[j].sid) :
            find_subscriber(nodes, subs, subs[i].sid, (L + 1) \div 2, FALSE).ret = NULL

\* C3, amended: for distinct inserted A and B that share their first L
\* nibbles, the lookup of the first floor(L/2) bytes of A (at least one
\* byte) returns none: those bytes lie wholly in the shared part.
SharedBytesAmbiguous ==
  \A i, j \in Subscribers :
      i # j =>
        \A L \in 2..CommonNibbles(subs[i].sid, subs[j].sid) :
            find_subscriber(nodes, subs, subs[i].sid, L \div 2, FALSE).ret = NULL

\* SidA and SidB share three nibbles and the lookup of SidA's first byte
\* returns none
SharedBytesAmbiguousWitness ==
  \E i, j \in Subscribers :
      /\ subs[i].sid = SidA
      /\ subs[j].sid = SidB
      /\ CommonNibbles(SidA, SidB) = 3
      /\ find_subscriber(nodes, subs, SidA, 1, FALSE).ret = NULL

RECURSIVE LeafSlot(_, _, _, _)
\* the leaf slot reached from node ptr (at depth pos) along the nibbles of
\* sid: what it holds and its depth, the number of nibbles consumed
LeafSlot(N, ptr, sid, pos) ==
  IF BitSet(N[ptr].is_tree, get_nibble(sid, pos))
  THEN LeafSlot(N, N[ptr].ptr[get_nibble(sid, pos)], sid, pos + 1)
  ELSE [leaf |-> N[ptr].ptr[get_nibble(sid, pos)], depth |-> pos + 1]

\* the greatest member of a non-empty set of numbers
Max(set) == CHOOSE m \in set : \A x \in set : x <= m

\* C4: every subscriber's abbreviate_len is the depth of the slot that holds
\* its leaf, which is one more than the longest run of leading nibbles it
\* shares with any other subscriber of the directory (1 when it shares
\* none); no step ever lowers it.
AbbreviateLenIsDepth ==
  /\ [](\A i \in Subscribers :
          /\ LeafSlot(nodes, ROOT, subs[i].sid, 0)
               = [leaf |-> i, depth |-> subs[i].abbreviate_len]
          /\ subs[i].abbreviate_len
               = 1 + Max({0} \cup {CommonNibbles(subs[i].sid, subs[j].sid) :
                                     j \in Subscribers \ {i}}))
  /\ [][\A i \in Subscribers : subs'[i].abbreviate_len >= subs[i].abbreviate_len]_vars

\* SidA was inserted alone (depth 1) and split down to depth 4 by SidB;
\* SidD shares nothing and sits at depth 1
AbbreviateLenIsDepthWitness ==
  /\ Len(subs) = 3
  /\ subs[1].sid = SidA /\ subs[1].abbreviate_len = 4
  /\ subs[2].sid = SidB /\ subs[2].abbreviate_len = 4
  /\ subs[3].sid = SidD /\ subs[3].abbreviate_len = 1

----------------------------------------------------------------------------
(* Properties of the codec *)

\* C5: when a frame is taken in hand with an empty context (no sender, no
\* previous), whatever the directory holds, the bytes a peer's encoder
\* writes with an empty context for a subscriber, when the literal length
\* is 32, decode successfully to the subscriber with that sid: the one the
\* directory held, or else a new one added to it; the context's previous
\* is that subscriber, invalid_addresses stays clear and no please-explain
\* is pending.
FullLiteralRoundTrip ==
  (frame_dir = "in" /\ context = NullContext) =>
    \A rec \in PeerRecords :
        \E e \in {overlay_address_append(<<rec>>, NullContext, TRUE, BigRoom, 1)} :
            (e.ret = 0 /\ e.out[1] = SID_SIZE) =>
              \E r \in {overlay_address_parse(nodes, subs, context, e.out, TRUE)} :
                  /\ r.ret = 0
                  /\ r.sub \in 1..Len(r.subs)
                  /\ r.subs[r.sub].sid = rec.sid
                  /\ IF \E i \in Subscribers : subs[i].sid = rec.sid
                     THEN r.subs = subs /\ r.nodes = nodes
                     ELSE r.sub = Len(subs) + 1 /\ SubSeq(r.subs, 1, Len(subs)) = [
                            i \in Subscribers |->
                              [subs[i] EXCEPT !.abbreviate_len = r.subs[i].abbreviate_len]]
                  /\ r.context.previous = r.sub
                  /\ ~r.context.invalid_addresses
                  /\ ~r.context.please_explain.allocated

\* the decoder has parsed the 32-byte literal of SidE, which the directory
\* did not hold, as the first address of a frame with no sender
FullLiteralRoundTripWitness ==
  /\ frame_dir = "in"
  /\ ndecoded = 1
  /\ context.sender = NULL
  /\ context.previous # NULL
  /\ context.previous = Len(subs)
  /\ subs[context.previous].sid = SidE
  /\ subs[context.previous].abbreviate_len = 2 * SID_SIZE
  /\ ~context.invalid_addresses
  /\ ~context.please_explain.allocated
  /\ <<SID_SIZE>> \o SidE \in {PeerEncoded(rec) : rec \in PeerRecords}

\* C6: the literal form the encoder has just written into the frame being
\* built (the whole of it: length byte and sid bytes) covers at least
\* abbreviate_len nibbles of the subscriber, and looking its bytes up in the
\* same directory without create returns that subscriber.
LiteralIsSafe ==
  (frame_dir \in {"out", "out_nocontext"} /\ encoded # <<>>) =>
    \E e \in {encoded[Len(encoded)]} :
        (e.ret = 0 /\ e.out[1] \notin {OA_CODE_SELF, OA_CODE_PREVIOUS}) =>
          /\ 2 * e.out[1] >= subs[e.sub].abbreviate_len
          /\ find_subscriber(nodes, subs, Tail(e.out), e.out[1], FALSE).ret = e.sub

\* SidB, which shares three nibbles with SidA, was written as the 3-byte
\* literal 10 01 00
LiteralIsSafeWitness ==
  /\ frame_dir \in {"out", "out_nocontext"}
  /\ encoded # <<>>
  /\ \E i, j \in Subscribers : subs[i].sid = SidA /\ subs[j].sid = SidB
  /\ encoded[Len(encoded)].out = <<3, 16, 1, 0>>
  /\ subs[encoded[Len(encoded)].sub].sid = SidB
  /\ subs[encoded[Len(encoded)].sub].abbreviate_len = 4

\* a step of overlay_address_append on the frame being built: one entry
\* more in the buffer
AppendStep == Len(encoded') = Len(encoded) + 1

\* C7 as stated: a literal form written for a subscriber whose send_full
\* is clear has the length byte ceil((abbreviate_len + 2) / 2), plus one
\* for the local identity, clamped to 32; it is in 1..32 and the first L
\* sid bytes follow it.
LiteralLenCeil ==
  [][AppendStep =>
       \E e \in {encoded'[Len(encoded')]} :
           (e.out # <<>> /\ e.out[1] \notin {OA_CODE_SELF, OA_CODE_PREVIOUS}
              /\ ~subs[e.sub].send_full) =>
             \E L \in {(subs[e.sub].abbreviate_len + 3) \div 2
                        + (IF subs[e.sub].reachable = REACHABLE_SELF THEN 1 ELSE 0)} :
                 /\ e.out[1] = IF L > SID_SIZE THEN SID_SIZE ELSE L
                 /\ e.out[1] \in 1..SID_SIZE
                 /\ e.ret = 0 => Tail(e.out) = Take(subs[e.sub].sid, e.out[1])]_vars

\* C7, amended: the length byte is floor((abbreviate_len + 2) / 2), the
\* integer division of the code, plus one for the local identity, clamped
\* to 32; it is in 1..32 and, when the buffer takes them, the first L sid
\* bytes follow it.
LiteralLenFloor ==
  [][AppendStep =>
       \E e \in {encoded'[Len(encoded')]} :
           (e.out # <<>> /\ e.out[1] \notin {OA_CODE_SELF, OA_CODE_PREVIOUS}
              /\ ~subs[e.sub].send_full) =>
             \E L \in {(subs[e.sub].abbreviate_len + 2) \div 2
                        + (IF subs[e.sub].reachable = REACHABLE_SELF THEN 1 ELSE 0)} :
                 /\ e.out[1] = IF L > SID_SIZE THEN SID_SIZE ELSE L
                 /\ e.out[1] \in 1..SID_SIZE
                 /\ e.ret = 0 => Tail(e.out) = Take(subs[e.sub].sid, e.out[1])]_vars

\* the local identity, at depth 64, was written as a 32-byte literal (33 + 1
\* clamped) and a subscriber at depth 1 as a 1-byte literal, with no
\* send_full set
LiteralLenFloorWitness ==
  /\ frame_dir = "out_nocontext"
  /\ Len(encoded) = 2
  /\ my_subscriber # NULL
  /\ encoded[1].sub = my_subscriber
  /\ subs[my_subscriber].abbreviate_len = 2 * SID_SIZE
  /\ encoded[1].out = <<SID_SIZE>> \o subs[my_subscriber].sid
  /\ encoded[2].sub # my_subscriber
  /\ subs[encoded[2].sub].abbreviate_len = 1
  /\ encoded[2].out = <<1>> \o Take(subs[encoded[2].sub].sid, 1)
  /\ \A i \in Subscribers : ~subs[i].send_full

\* C8: with a context, a successful overlay_address_append writes the one
\* byte 0xFF when the subscriber is the context's sender (also when it is
\* the previous one as well), else the one byte 0xFE when it is the
\* context's previous, else a length byte in 1..32 and that many leading sid
\* bytes; afterwards the context's previous is the subscriber.
FormPriority ==
  [][(AppendStep /\ frame_dir = "out") =>
       \E e \in {encoded'[Len(encoded')]} :
           e.ret = 0 =>
             /\ context'.previous = e.sub
             /\ IF e.sub = context.sender THEN e.out = <<OA_CODE_SELF>>
                ELSE IF e.sub = context.previous THEN e.out = <<OA_CODE_PREVIOUS>>
                ELSE /\ e.out[1] \in 1..SID_SIZE
                     /\ Tail(e.out) = Take(subs[e.sub].sid, e.out[1])]_vars

\* after a literal, the sender was encoded twice: 0xFF, and 0xFF again when
\* it was the previous subscriber as well
FormPriorityWitness ==
  /\ frame_dir = "out"
  /\ Len(encoded) = 3
  /\ context.sender # NULL
  /\ encoded[1].sub # context.sender /\ encoded[1].ret = 0
  /\ encoded[2].sub = context.sender /\ encoded[2].out = <<OA_CODE_SELF>>
  /\ encoded[3].sub = context.sender /\ encoded[3].out = <<OA_CODE_SELF>>
  /\ context.previous = context.sender

\* C9 as stated: in a frame built with a context, every successful
\* encoding of the subscriber that was successfully encoded just before is
\* the one byte 0xFE; with a sender S, encoding S, S, T writes 0xFF, 0xFE
\* and the literal of T.
RepeatIsPrevious ==
  frame_dir = "out" =>
    /\ \A k \in 2..Len(encoded) :
          (encoded[k].sub = encoded[k - 1].sub /\ encoded[k - 1].ret = 0
             /\ encoded[k].ret = 0) =>
            encoded[k].out = <<OA_CODE_PREVIOUS>>
    /\ (Len(encoded) = 3 /\ context.sender # NULL
          /\ encoded[1].sub = context.sender /\ encoded[2].sub = context.sender
          /\ encoded[3].sub # context.sender /\ encoded[3].ret = 0) =>
         /\ encoded[1].out = <<OA_CODE_SELF>>
         /\ encoded[2].out = <<OA_CODE_PREVIOUS>>
         /\ encoded[3].out[1] \in 1..SID_SIZE
         /\ Tail(encoded[3].out) = Take(subs[encoded[3].sub].sid, encoded[3].out[1])

\* C9, amended: every successful encoding of the subscriber that was
\* successfully encoded just before is the one byte 0xFE, unless that
\* subscriber is the context's sender: then it is 0xFF every time.  With a
\* sender S, encoding S, S, T writes 0xFF, 0xFF and the literal of T.
RepeatIsPreviousOrSelf ==
  frame_dir = "out" =>
    /\ \A k \in 2..Len(encoded) :
          (encoded[k].sub = encoded[k - 1].sub /\ encoded[k - 1].ret = 0
             /\ encoded[k].ret = 0) =>
            encoded[k].out = IF encoded[k].sub = context.sender
                             THEN <<OA_CODE_SELF>> ELSE <<OA_CODE_PREVIOUS>>
    /\ (Len(encoded) = 3 /\ context.sender # NULL
          /\ encoded[1].sub = context.sender /\ encoded[2].sub = context.sender
          /\ encoded[3].sub # context.sender /\ encoded[3].ret = 0) =>
         /\ encoded[1].out = <<OA_CODE_SELF>>
         /\ encoded[2].out = <<OA_CODE_SELF>>
         /\ encoded[3].out[1] \in 1..SID_SIZE
         /\ Tail(encoded[3].out) = Take(subs[encoded[3].sub].sid, encoded[3].out[1])

\* a subscriber that is not the sender was encoded three times running (a
\* literal, then 0xFE twice) in a frame that has a sender
RepeatIsPreviousOrSelfWitness ==
  /\ frame_dir = "out"
  /\ context.sender # NULL
  /\ Len(encoded) = 3
  /\ encoded[1].sub # context.sender
  /\ encoded[2].sub = encoded[1].sub /\ encoded[3].sub = encoded[1].sub
  /\ encoded[1].ret = 0 /\ encoded[1].out[1] \in 1..SID_SIZE
  /\ encoded[2].out = <<OA_CODE_PREVIOUS>>
  /\ encoded[3].out = <<OA_CODE_PREVIOUS>>

----------------------------------------------------------------------------
(* Properties of the broadcast cache *)

\* C11 as stated: starting from the fresh cache, the first call of
\* overlay_broadcast_drop_check with any BPI returns 0 when it is the first
\* call of all, and the call that immediately follows it with the same BPI
\* returns 1.
FirstNovelThenDuplicate ==
  /\ checked # <<>> => checked[1].ret = 0
  /\ \A k \in 2..Len(checked) : checked[k].id = checked[k - 1].id => checked[k].ret = 1

\* C11, amended: on the fresh cache the first call with any BPI other than
\* eight zero bytes returns 0, and a call that immediately follows a call
\* with the same BPI returns 1.  Eight zero bytes are what every slot of
\* the fresh cache holds, so the first call with them returns 1.
FirstNovelUnlessZero ==
  /\ checked # <<>> => checked[1].ret = IF checked[1].id = Zeros(BROADCAST_LEN) THEN 1 ELSE 0
  /\ \A k \in 2..Len(checked) : checked[k].id = checked[k - 1].id => checked[k].ret = 1

\* the BPI 00 01 02 03 04 05 06 07 was checked twice on the fresh cache:
\* novel, then duplicate
FirstNovelUnlessZeroWitness ==
  /\ Len(checked) = 2
  /\ checked[1].id = <<0, 1, 2, 3, 4, 5, 6, 7>> /\ checked[1].ret = 0
  /\ checked[2].id = <<0, 1, 2, 3, 4, 5, 6, 7>> /\ checked[2].ret = 1

\* the calls before call k that used the slot of call k
SameSlotBefore(k) == {j \in 1..(k - 1) : checked[j].index = checked[k].index}

\* C12: every call's slot index is within 0..1023; a call reports a
\* duplicate exactly when the latest earlier call on the same slot had the
\* same BPI (or, with no earlier call on the slot, when the BPI is the
\* zeros of the fresh slot), whatever calls on other slots came between;
\* and a call changes no slot but the one its BPI hashes to.
RememberedUntilOverwritten ==
  /\ [](\A k \in 1..Len(checked) :
          /\ checked[k].index \in 0..(MAX_BPIS - 1)
          /\ (checked[k].ret = 1) <=>
               (checked[k].id = IF SameSlotBefore(k) = {} THEN Zeros(BROADCAST_LEN)
                                ELSE checked[Max(SameSlotBefore(k))].id)
          /\ checked[k].ret \in {0, 1})
  /\ [][/\ DOMAIN bpilist' \subseteq 0..(MAX_BPIS - 1)
        /\ \A i \in DOMAIN bpilist' :
              SlotId(bpilist', i) # SlotId(bpilist, i) =>
                /\ Len(checked') = Len(checked) + 1
                /\ i = checked'[Len(checked')].index]_vars

\* BpiX (slot 8) is still remembered after a check of 00..07 (slot 370), is
\* overwritten by BpiY (slot 8 too) and is then novel again
RememberedUntilOverwrittenWitness ==
  /\ Len(checked) = 5
  /\ checked[1] = [id |-> BpiX, index |-> 8, ret |-> 0]
  /\ checked[2] = [id |-> Bpi07, index |-> 370, ret |-> 0]
  /\ checked[3] = [id |-> BpiX, index |-> 8, ret |-> 1]
  /\ checked[4] = [id |-> BpiY, index |-> 8, ret |-> 0]
  /\ checked[5] = [id |-> BpiX, index |-> 8, ret |-> 0]
  /\ DOMAIN bpilist = {8, 370}

----------------------------------------------------------------------------
(* Properties of reachability *)

\* the interface of subscriber s is there and is up
InterfaceIsUp(s) ==
  /\ subs[s].interface # NULL
  /\ interfaces[subs[s].interface] = INTERFACE_STATE_UP

\* C13: for every subscriber s, with m the value set_reachable last stored
\* in it, subscriber_is_reachable(s) is: m or NONE when m holds UNICAST or
\* BROADCAST (with or without ASSUMED), and m exactly when s has an
\* interface and that interface is up; m when m is NONE or SELF; and NONE
\* for the null subscriber.
ReachableIffInterfaceUp ==
  /\ subscriber_is_reachable(subs, interfaces, NULL) = REACHABLE_NONE
  /\ \A s \in Subscribers :
        \E m \in {subs[s].reachable} :
            /\ m \in ReachableValues
            /\ m \in {REACHABLE_NONE, REACHABLE_SELF} =>
                 subscriber_is_reachable(subs, interfaces, s) = m
            /\ m \in {REACHABLE_UNICAST, REACHABLE_BROADCAST,
                      REACHABLE_UNICAST + REACHABLE_ASSUMED,
                      REACHABLE_BROADCAST + REACHABLE_ASSUMED} =>
                 subscriber_is_reachable(subs, interfaces, s)
                   = IF InterfaceIsUp(s) THEN m ELSE REACHABLE_NONE

\* set_reachable has stored UNICAST in a subscriber whose interface is up
\* and BROADCAST in one that has no interface; a third is the local identity
ReachableIffInterfaceUpWitness ==
  /\ Len(subs) = 3
  /\ subs[1].reachable = REACHABLE_UNICAST /\ subs[1].interface = 1
  /\ subs[2].reachable = REACHABLE_BROADCAST /\ subs[2].interface = NULL
  /\ interfaces[1] = INTERFACE_STATE_UP
  /\ subscriber_is_reachable(subs, interfaces, 1) = REACHABLE_UNICAST
  /\ subscriber_is_reachable(subs, interfaces, 2) = REACHABLE_NONE
  /\ subs[3].reachable = REACHABLE_SELF
  /\ subscriber_is_reachable(subs, interfaces, 3) = REACHABLE_SELF

\* C14: for every subscriber s whose stored reachable holds the INDIRECT
\* bit, whatever the next_hop links are (s itself and cycles included),
\* subscriber_is_reachable(s) returns INDIRECT when s has a next hop whose
\* stored reachable holds UNICAST or BROADCAST and whose own resolved
\* reachability holds one of them and not ASSUMED (it is UNICAST or
\* BROADCAST on an interface that is up), and NONE otherwise; so it is NONE
\* when the next hop is INDIRECT too.
IndirectNeedsDirectHop ==
  \A s \in Subscribers :
      BitAnd(subs[s].reachable, REACHABLE_INDIRECT) # 0 =>
        \E hop \in {subs[s].next_hop}, r \in {subscriber_is_reachable(subs, interfaces, s)} :
            /\ r \in {REACHABLE_NONE, REACHABLE_INDIRECT}
            /\ (r = REACHABLE_INDIRECT) <=>
                 /\ hop # NULL
                 /\ BitAnd(subs[hop].reachable, REACHABLE_DIRECT) # 0
                 /\ BitAnd(subscriber_is_reachable(subs, interfaces, hop),
                           REACHABLE_DIRECT) # 0
                 /\ BitAnd(subscriber_is_reachable(subs, interfaces, hop),
                           REACHABLE_ASSUMED) = 0
            /\ (r = REACHABLE_INDIRECT) <=>
                 /\ hop # NULL
                 /\ subs[hop].reachable \in {REACHABLE_UNICAST, REACHABLE_BROADCAST}
                 /\ InterfaceIsUp(hop)
            /\ (hop # NULL /\ subs[hop].reachable = REACHABLE_INDIRECT) => r = REACHABLE_NONE

\* subscriber 1 is reached through 2 and 2 through 3, which is UNICAST on
\* an interface that is up: 2 resolves to INDIRECT and 1 to NONE
IndirectNeedsDirectHopWitness ==
  /\ Len(subs) = 3
  /\ subs[1].reachable = REACHABLE_INDIRECT /\ subs[1].next_hop = 2
  /\ subs[2].reachable = REACHABLE_INDIRECT /\ subs[2].next_hop = 3
  /\ subs[3].reachable = REACHABLE_UNICAST /\ InterfaceIsUp(3)
  /\ subscriber_is_reachable(subs, interfaces, 1) = REACHABLE_NONE
  /\ subscriber_is_reachable(subs, interfaces, 2) = REACHABLE_INDIRECT

----------------------------------------------------------------------------
(* Properties of decoding *)

MalformedBuffers ==
  {<<>>, <<0>>, <<0, 16>>, <<SID_SIZE + 1>>, <<SID_SIZE + 1>> \o SidA \o <<0>>, <<128, 16>>,
   <<OA_CODE_PREVIOUS - 1>>, <<1>>, <<2, 16>>, <<SID_SIZE>> \o Take(SidA, SID_SIZE - 1)}

\* C17: in a frame being decoded, parsing an empty buffer, a leading byte
\* 0x00 or in 0x21..0xFD, or a literal length with fewer bytes left than
\* it says, returns -1 and leaves the context (previous, invalid_addresses,
\* please_explain) and the directory as they were, whether or not the
\* caller passes a place for the result.
MalformedIsFatal ==
  frame_dir = "in" =>
    \A buf \in MalformedBuffers, hasOut \in BOOLEAN :
        \E r \in {overlay_address_parse(nodes, subs, context, buf, hasOut)} :
            /\ r.ret = -1
            /\ r.context = context
            /\ r.nodes = nodes /\ r.subs = subs
            /\ ~r.written

\* one address of a frame with a sender was parsed and the context is
\* still as the frame began: the parse was a fatal one
MalformedIsFatalWitness ==
  /\ frame_dir = "in"
  /\ ndecoded = 1
  /\ Len(subs) = 2
  /\ context = [NullContext EXCEPT !.sender = 2]

\* Abbreviations a received frame may hold: a length below 32 and that many
\* bytes
AbbrevBuffers ==
  {<<1, 16>>, <<1, 32>>, <<1, 48>>, <<2, 16, 0>>, <<2, 16, 1>>, <<2, 16, 2>>,
   <<3, 16, 0, 0>>, <<SID_SIZE - 1>> \o Take(SidA, SID_SIZE - 1)}

\* the known subscribers whose sid begins with the bytes id
Matching(id) == {i \in Subscribers : Take(subs[i].sid, Len(id)) = id}

\* the bytes of the pending please-explain payload of a context
Pending(ctx) == ctx.please_explain.payload.bytes

SidLess(a, b) == \E k \in 1..SID_SIZE : Take(a, k - 1) = Take(b, k - 1) /\ a[k] < b[k]

\* the records (32, sid) of the subscribers of a set, in ascending order of sid
RECURSIVE SidRecords(_)
SidRecords(set) ==
  IF set = {} THEN <<>>
  ELSE LET first == CHOOSE i \in set : \A j \in set \ {i} : SidLess(subs[i].sid, subs[j].sid)
       IN  <<SID_SIZE>> \o subs[first].sid \o SidRecords(set \ {first})

----------------------------------------------------------------------------
(* Properties of please-explain frames *)

RECURSIVE ExplainRecords(_)
\* the records (len, bytes) a payload is made of, and whether it is made of
\* whole records with len in 1..32
ExplainRecords(buf) ==
  IF buf = <<>> THEN [ok |-> TRUE, recs |-> <<>>]
  ELSE IF Head(buf) \notin 1..SID_SIZE \/ Len(buf) - 1 < Head(buf)
  THEN [ok |-> FALSE, recs |-> <<>>]
  ELSE Bind(ExplainRecords(SubSeq(buf, Head(buf) + 2, Len(buf))),
            LAMBDA rest : [ok |-> rest.ok,
                           recs |-> <<SubSeq(buf, 2, Head(buf) + 1)>> \o rest.recs])

\* C19: between events, for every payload a please-explain frame may
\* bring: when the payload is made of whole records, process_explain
\* returns 0, every node ID of a 32-byte record is then held by one
\* subscriber, which a full lookup finds, every subscriber known before is
\* still there and found, and only the unknown IDs of 32-byte records were
\* added (shorter records add nothing); when a record has length 0 or above
\* 32 or runs past the end, process_explain returns -1 and nothing is
\* queued.
ExplainTeachesFullIds ==
  Idle =>
    \A p \in ExplainPayloads, source \in SubscribersOrNull,
       destination \in SubscribersOrNull, accept \in BOOLEAN :
        (destination # NULL \/ my_subscriber # NULL) =>
          \E recs \in {ExplainRecords(p)},
             r \in {process_explain(nodes, subs, queue, p, source, destination, accept)} :
              IF recs.ok
              THEN /\ r.ret = 0
                   /\ \A k \in 1..Len(recs.recs) :
                         Len(recs.recs[k]) = SID_SIZE =>
                           \E i \in 1..Len(r.subs) :
                               /\ r.subs[i].sid = recs.recs[k]
                               /\ find_subscriber(r.nodes, r.subs, recs.recs[k], SID_SIZE,
                                                  FALSE).ret = i
                   /\ \A i \in Subscribers :
                         /\ r.subs[i].sid = subs[i].sid
                         /\ find_subscriber(r.nodes, r.subs, subs[i].sid, SID_SIZE,
                                            FALSE).ret = i
                   /\ {r.subs[i].sid : i \in (Len(subs) + 1)..Len(r.subs)}
                        = {recs.recs[k] : k \in {j \in 1..Len(recs.recs) :
                                                   Len(recs.recs[j]) = SID_SIZE}}
                            \ {subs[i].sid : i \in Subscribers}
                   /\ Len(r.subs) - Len(subs)
                        = Cardinality({r.subs[i].sid : i \in (Len(subs) + 1)..Len(r.subs)})
              ELSE /\ r.ret = -1
                   /\ r.queue = queue

\* SidA was known; a please-explain frame with the records (32, SidB) and
\* (32, SidE) was processed and both are now known and found, SidE at
\* depth 64 next to SidA
ExplainTeachesFullIdsWitness ==
  /\ Len(subs) = 3
  /\ subs[1].sid = SidA /\ subs[2].sid = SidB /\ subs[3].sid = SidE
  /\ subs[1].abbreviate_len = 2 * SID_SIZE
  /\ find_subscriber(nodes, subs, SidB, SID_SIZE, FALSE).ret = 2
  /\ find_subscriber(nodes, subs, SidE, SID_SIZE, FALSE).ret = 3
  /\ queue = <<>>

\* the stored values that hold the bit of a reachable mode
ReachableModeValues ==
  {REACHABLE_INDIRECT, REACHABLE_UNICAST, REACHABLE_BROADCAST,
   REACHABLE_UNICAST + REACHABLE_ASSUMED, REACHABLE_BROADCAST + REACHABLE_ASSUMED}

\* C20: send_please_explain returns 0 and queues nothing when no
\* please-explain is pending; with one pending it queues that one frame and
\* returns 0, or returns -1 with the queue as it was when the queue rejects
\* the frame; the frame has TTL 64 and no broadcast ID when the destination
\* is non-null and its stored reachable holds a reachable-mode bit, else
\* TTL 1 and a generated broadcast ID.  No parse of an address changes the
\* queue, and the call that ends a decoded frame adds at most one frame.
ExplainSentOnce ==
  /\ [](frame_dir = "in" =>
          \A source \in {NULL, my_subscriber}, destination \in SubscribersOrNull,
             accept \in BOOLEAN :
              (context.please_explain.allocated => (source # NULL \/ my_subscriber # NULL)) =>
                \E r \in {send_please_explain(subs, queue, context, source, destination,
                                              accept)} :
                    IF ~context.please_explain.allocated
                    THEN r.ret = 0 /\ r.queue = queue
                    ELSE IF ~accept
                    THEN r.ret = -1 /\ r.queue = queue
                    ELSE /\ r.ret = 0
                         /\ Len(r.queue) = Len(queue) + 1
                         /\ Take(r.queue, Len(queue)) = queue
                         /\ \E f \in {r.queue[Len(r.queue)]} :
                               /\ f.destination = destination
                               /\ f.payload = Pending(context)
                               /\ IF destination # NULL
                                       /\ subs[destination].reachable \in ReachableModeValues
                                  THEN f.ttl = 64 /\ ~f.bpi_generated
                                  ELSE f.ttl = 1 /\ f.bpi_generated)
  /\ [][/\ (frame_dir = "in" /\ frame_dir' = "in") => queue' = queue
        /\ (frame_dir = "in" /\ frame_dir' = "none") =>
             /\ ~context.please_explain.allocated => queue' = queue
             /\ queue' # queue =>
                  /\ Len(queue') = Len(queue) + 1
                  /\ queue'[Len(queue')].payload = Pending(context)
                  /\ queue'[Len(queue')].ttl \in {1, 64}
                  /\ (queue'[Len(queue')].ttl = 64) <=>
                       /\ queue'[Len(queue')].destination # NULL
                       /\ subs[queue'[Len(queue')].destination].reachable
                            \in ReachableModeValues
                  /\ queue'[Len(queue')].bpi_generated <=> (queue'[Len(queue')].ttl = 1)]_vars

\* the one please-explain frame of a decoded frame is queued for its
\* sender, which is reachable indirectly: TTL 64, no broadcast ID, the
\* payload ending with the abbreviation asked about
ExplainSentOnceWitness ==
  /\ frame_dir = "none"
  /\ Len(queue) = 1
  /\ queue[1].destination # NULL
  /\ subs[queue[1].destination].reachable = REACHABLE_INDIRECT
  /\ queue[1].ttl = 64
  /\ ~queue[1].bpi_generated
  /\ SubSeq(queue[1].payload, Len(queue[1].payload) - 1, Len(queue[1].payload)) = <<1, 16>>

\* the address reachable_unicast records for a reply from PeerAddr, PeerPort
RecordedAddress ==
  [sin_family |-> AF_INET, sin_addr |-> PeerAddr,
   sin_port |-> ((PeerPort % 256) * 256) + (PeerPort \div 256)]

\* C21: reachable_unicast on a subscriber whose stored reachable holds a
\* reachable mode (INDIRECT, UNICAST or BROADCAST, assumed or not), or that
\* the routing layer already knows, returns an error, leaves every
\* subscriber as it was and calls neither the keyring nor the directory
\* service; on any other subscriber it returns 0, records the interface and
\* the address and leaves reachable exactly UNICAST.  No step gives a
\* subscriber that holds a reachable mode another address.
UnicastRefusedWhenReachable ==
  /\ [](\A s \in Subscribers, i \in Interfaces, n \in BOOLEAN :
          \E r \in {reachable_unicast(subs, directory_service, s, i, PeerAddr, PeerPort, n)} :
              IF subs[s].reachable \in ReachableModeValues \/ n
              THEN /\ r.ret = -1
                   /\ r.subs = subs
                   /\ ~r.calls.keyring_send_sas_request
                   /\ ~r.calls.directory_registration
              ELSE /\ r.ret = 0
                   /\ r.subs[s].reachable = REACHABLE_UNICAST
                   /\ r.subs[s].interface = i
                   /\ r.subs[s].address = RecordedAddress
                   /\ \A o \in Subscribers \ {s} : r.subs[o] = subs[o]
                   /\ \A f \in {"sid", "abbreviate_len", "send_full", "next_hop",
                                "sas_valid"} : r.subs[s][f] = subs[s][f])
  /\ [][\A s \in Subscribers :
          subs'[s].address # subs[s].address =>
              /\ subs[s].reachable \notin ReachableModeValues
              /\ subs'[s].reachable = REACHABLE_UNICAST
              /\ subs'[s].address = RecordedAddress]_vars

\* a unicast reply made the local identity's neighbour reachable by unicast
\* on the interface, the keyring was asked for its signing key, and the
\* subscriber now holds a reachable mode, so that the next reply is refused
UnicastRefusedWhenReachableWitness ==
  /\ Len(subs) = 2
  /\ subs[2].reachable = REACHABLE_UNICAST
  /\ subs[2].interface = 1
  /\ subs[2].address = RecordedAddress
  /\ ~subs[2].sas_valid
  /\ calls.keyring_send_sas_request
  /\ reachable_unicast(subs, directory_service, 2, 1, PeerAddr, PeerPort, FALSE).ret = -1

\* C22: set_reachable(s, m) with m the stored state changes nothing and
\* calls neither the keyring nor the directory service; with another m the
\* stored state becomes exactly m, nothing else of the subscribers changes,
\* the keyring is asked for the signing key iff m holds a reachable mode and
\* sas_valid is false, and the directory registration is made iff s is the
\* directory service.  Every step that changes a stored state has made
\* exactly these calls.
SetReachableOverwrites ==
  /\ [](\A s \in Subscribers, m \in ReachableValues :
          \E S \in {set_reachable(subs, s, m)},
             c \in {set_reachable_calls(subs, directory_service, s, m)} :
              IF m = subs[s].reachable
              THEN /\ S = subs
                   /\ ~c.keyring_send_sas_request
                   /\ ~c.directory_registration
              ELSE /\ S = [subs EXCEPT ![s].reachable = m]
                   /\ c.keyring_send_sas_request
                        <=> (m \in ReachableModeValues /\ ~subs[s].sas_valid)
                   /\ c.directory_registration <=> (s = directory_service))
  /\ [][\A s \in Subscribers :
          (Len(subs') = Len(subs) /\ subs'[s].reachable # subs[s].reachable) =>
              /\ calls'.keyring_send_sas_request
                   <=> (subs'[s].reachable \in ReachableModeValues /\ ~subs[s].sas_valid)
              /\ calls'.directory_registration <=> (s = directory_service)]_vars

\* the directory service, whose signing key is known, has just moved from
\* assumed unicast to unicast: the registration was made and the keyring
\* was not asked
SetReachableOverwritesWitness ==
  /\ directory_service # NULL
  /\ subs[directory_service].sas_valid
  /\ subs[directory_service].reachable = REACHABLE_UNICAST
  /\ calls.directory_registration
  /\ ~calls.keyring_send_sas_request

\* the prefixes that are walked: one that SidA and SidB begin with, one that
\* SidD begins with, and the first two bytes of SidB
WalkPrefixes == {<<16>>, <<32>>, <<16, 1>>}

\* the please-explain frames a walk may find in its context: none yet (the
\* zeroed context of process_explain), or the one of the frame being decoded
WalkFrames ==
  {NoFrame} \cup (IF context.please_explain.allocated THEN {context.please_explain} ELSE {})

\* the sids of the whole records (32, sid) in the bytes from position from on
RecordSids(bytes, from) ==
  {SubSeq(bytes, from + (SID_SIZE + 1) * k + 2, from + (SID_SIZE + 1) * (k + 1)) :
     k \in 0..(((Len(bytes) - from) \div (SID_SIZE + 1)) - 1)}

\* C23 as stated: every record that the walk for a prefix p appends carries
\* a sid that begins with p, and the walk sets send_full only on the local
\* subscriber and only if its sid begins with p.
ExplainOnlyMatching ==
  \A p \in WalkPrefixes, pe \in WalkFrames :
      \E w \in {walk_explain(nodes, subs, pe, p)} :
          /\ \A sid \in RecordSids(w.pe.payload.bytes, Len(pe.payload.bytes)) :
                Take(sid, Len(p)) = p
          /\ \A s \in Subscribers :
                (w.subs[s].send_full /\ ~subs[s].send_full) =>
                    /\ subs[s].reachable = REACHABLE_SELF
                    /\ Take(subs[s].sid, Len(p)) = p

\* SidA alone was known when the abbreviation 10 01 (of SidB) was parsed:
\* the pending payload holds the record of SidA, which does not begin with
\* 10 01, and then the entry 02 10 01
ExplainOnlyMatchingWitness ==
  /\ frame_dir = "in"
  /\ ndecoded = 1
  /\ Len(subs) = 1
  /\ subs[1].sid = SidA
  /\ Pending(context) = <<SID_SIZE>> \o SidA \o <<2, 16, 1>>

----------------------------------------------------------------------------
(* The shape of the trie *)

RECURSIVE TriePath(_, _, _)
\* the tree nodes on the path that the nibbles of sid spell from node n at
\* depth d, as far as the slots on it are child nodes
TriePath(n, sid, d) ==
  IF d < 2 * SID_SIZE /\ BitSet(nodes[n].is_tree, get_nibble(sid, d))
  THEN <<n>> \o TriePath(nodes[n].ptr[get_nibble(sid, d)], sid, d + 1)
  ELSE <<n>>

RECURSIVE SubtreeLeaves(_)
\* the subscribers held in the subtree of node n
SubtreeLeaves(n) ==
  UNION {IF BitSet(nodes[n].is_tree, i) THEN SubtreeLeaves(nodes[n].ptr[i])
         ELSE IF nodes[n].ptr[i] # NULL THEN {nodes[n].ptr[i]} ELSE {} : i \in 0..15}

\* the slots (node, index) that hold the pointer x, as child or as leaf
SlotsHolding(x, asTree) ==
  {<<n, i>> \in (1..Len(nodes)) \X (0..15) :
     nodes[n].ptr[i] = x /\ BitSet(nodes[n].is_tree, i) = asTree}

\* C24: in every reachable directory state each slot of a node is empty, a
\* subscriber leaf or a child node, as its is_tree bit says, each child node
\* and each subscriber being held by one slot only; the subtree of every
\* child node holds two subscribers or more; every subscriber is the leaf
\* at the end of the path that the leading nibbles of its own sid spell; and
\* two subscribers that share k leading nibbles share the nodes of their
\* paths down to depth k, where they are in different slots.  No leaf is
\* deeper than the longest prefix it shares with another subscriber.
TrieShape ==
  /\ \A n \in 1..Len(nodes), i \in 0..15 :
        IF BitSet(nodes[n].is_tree, i)
        THEN nodes[n].ptr[i] \in 2..Len(nodes)
        ELSE nodes[n].ptr[i] \in 0..Len(subs)
  /\ \A n \in 2..Len(nodes) :
        /\ Cardinality(SlotsHolding(n, TRUE)) = 1
        /\ Cardinality(SubtreeLeaves(n)) >= 2
  /\ \A s \in Subscribers :
        \E path \in {TriePath(ROOT, subs[s].sid, 0)} :
            /\ SlotsHolding(s, FALSE)
                 = {<<path[Len(path)], get_nibble(subs[s].sid, Len(path) - 1)>>}
            /\ Len(path) > 1 =>
                 \E o \in Subscribers \ {s} :
                     CommonNibbles(subs[s].sid, subs[o].sid) >= Len(path) - 1
            /\ \A o \in Subscribers \ {s} :
                  \E k \in {CommonNibbles(subs[s].sid, subs[o].sid)},
                     other \in {TriePath(ROOT, subs[o].sid, 0)} :
                      /\ Len(path) >= k + 1
                      /\ Len(other) >= k + 1
                      /\ Take(path, k + 1) = Take(other, k + 1)
                      /\ get_nibble(subs[s].sid, k) # get_nibble(subs[o].sid, k)

\* SidA and SidE, which share their first 63 nibbles, are both known, with
\* a third subscriber: the trie has a chain of 63 child nodes under the
\* root, each holding both of them
TrieShapeWitness ==
  /\ Len(subs) = 3
  /\ Len(nodes) = 2 * SID_SIZE
  /\ \E a, e \in Subscribers :
        /\ subs[a].sid = SidA /\ subs[e].sid = SidE
        /\ \A n \in 2..Len(nodes) : {a, e} \subseteq SubtreeLeaves(n)

----------------------------------------------------------------------------
(* Enumeration *)

RECURSIVE Ascending(_)
\* the subscribers of a set in ascending order of sid
Ascending(set) ==
  IF set = {} THEN <<>>
  ELSE LET first == CHOOSE i \in set : \A j \in set \ {i} : SidLess(subs[i].sid, subs[j].sid)
       IN  <<first>> \o Ascending(set \ {first})

----------------------------------------------------------------------------
(* Please-explain exchanges *)

\* payloads made of 32-byte records only
FullIdPayloads ==
  {<<SID_SIZE>> \o s : s \in InSids}
  \cup {<<SID_SIZE>> \o SidA \o <<SID_SIZE>> \o SidB, <<SID_SIZE>> \o SidD \o <<SID_SIZE>> \o SidA}

\* the payloads of the frames that process_explain queues for a request
\* payload in this state, whatever the frame's source and destination
RepliesTo(p) ==
  {r.queue[Len(r.queue)].payload :
     r \in {x \in {process_explain(nodes, subs, <<>>, p, source, my_subscriber, TRUE) :
                     source \in SubscribersOrNull} : x.queue # <<>>}}

\* a payload is made of whole 32-byte records
OnlyFullRecords(payload) ==
  \E recs \in {ExplainRecords(payload)} :
      recs.ok /\ \A k \in 1..Len(recs.recs) : Len(recs.recs[k]) = SID_SIZE

\* processing the payload queues nothing, whatever the frame's source and
\* destination and the answer of the queue
QueuesNothing(payload) ==
  \A source \in SubscribersOrNull, accept \in BOOLEAN :
      process_explain(nodes, subs, queue, payload, source, my_subscriber, accept).queue = queue

\* C26 as stated: the reply that process_explain builds is made of 32-byte
\* records only, process_explain on a payload of 32-byte records queues no
\* frame, and processing a queued reply leaves no frame behind.
NoPingPongFullRecords ==
  /\ [](my_subscriber # NULL =>
          /\ \A p \in RequestPayloads : \A reply \in RepliesTo(p) : OnlyFullRecords(reply)
          /\ \A q \in FullIdPayloads : QueuesNothing(q))
  /\ [][queue # <<>> => queue' = <<>>]_vars

\* a request with the abbreviation 10 sixteen times over was processed
\* while SidA and SidB were known: the reply queued for the peer has reached
\* its limit and ends with a length byte that no sid follows
NoPingPongFullRecordsWitness ==
  /\ Len(queue) = 1
  /\ Len(queue[1].payload) = EXPLAIN_LIMIT
  /\ queue[1].payload[EXPLAIN_LIMIT] = SID_SIZE
  /\ OnlyFullRecords(Take(queue[1].payload, EXPLAIN_LIMIT - 1))
  /\ ~OnlyFullRecords(queue[1].payload)

----------------------------------------------------------------------------
(* The index-table encoder *)

\* C27: once an address holds an index k of the table (it was written as
\* 08, the address, k), every later call for that address writes 01 k and
\* takes no further entry of the table; and 01 i is written only when entry
\* i of the table holds the address.
IndexReused ==
  [][LET in == abbr_call'.in
     IN  /\ \A k \in 1..255 :
               (abbrs.allocated /\ TableSid(abbrs, k) = in /\ abbr_call'.ret = 0) =>
                   /\ abbr_call'.out = <<1, k>>
                   /\ abbrs'.next_free = abbrs.next_free
         /\ \A i \in 0..255 :
               abbr_call'.out = <<1, i>> => TableSid(abbrs', i) = in]_abbrVars

\* SidA was written twice: the second call did not write 01 01 but took
\* entry 2 for it as well and wrote 08, SidA, 02
IndexReusedWitness ==
  /\ abbrs.allocated
  /\ TableSid(abbrs, 1) = SidA
  /\ TableSid(abbrs, 2) = SidA
  /\ abbr_call = [in |-> SidA, out |-> <<8>> \o SidA \o <<2>>, ret |-> 0]

====
